---- MODULE Spec2Model ----
(***************************************************************************)
(* A model of MemoryStore (src/src/store.ts): a SQLite table of metadata   *)
(* rows and a LanceDB table of vector entries, kept together by create,    *)
(* update, delete, and read by get, search and findDuplicates.             *)
(*                                                                         *)
(* Numbers are scaled to integers: confidence, importance and thresholds   *)
(* are hundredths (0.8 is 80), a distance d stands for d/100, so that the  *)
(* score 1/(1+distance) is the fraction 100/(100+d).  Times are epoch      *)
(* milliseconds.  Texts (ids, tags, JSON) are sequences of characters.     *)
(***************************************************************************)
EXTENDS Integers, Sequences, FiniteSets, TLC

VARIABLES
    now,        \* the value Date.now() returns
    rows,       \* table memories, in rowid (insertion) order
    vecs,       \* table memory_vectors: a set of [id, vector, text]
    issued,     \* every id randomUUID() has returned so far
    born,       \* for each id issued, the content its create was given
    calls,      \* the number of create, update and delete calls made
    procs,      \* for each caller, the call it has in flight and how far it is
    vdb,        \* vectorTable, initPromise and how far initVectorDb is
    failed      \* the last call the embedding provider made fail, if any

vars == <<now, rows, vecs, issued, born, calls, procs, vdb, failed>>

-----------------------------------------------------------------------------
(* Bounds of the model *)

\* at most this many create, update and delete calls are made
MaxCalls == 3
\* calls are made at 1 ms and at up to this many instants a day later, one
\* millisecond apart
LateInstants == 1
\* the number of create, update and delete calls when calls overlap
MaxCallsC == 2

-----------------------------------------------------------------------------
(* Program constants *)

ShortIdLen == 8
DefaultConfidence == 80
DefaultImportance == 50
DayMs == 86400000
DefaultSearchLimit == 10
DefaultThreshold == 95
DefaultListLimit == 20
DefaultCategoryLimit == 50
\* 1/(1+distance) with distance in hundredths is Scale/(Scale + d)
Scale == 100

\* An omitted (undefined) field of an input object is a field the record
\* does not have.  null and undefined as values: of a text, and of a number.
Null == "null"
Undef == "undefined"
NullNum == 0 - 1
UndefNum == 0 - 2

\* input.f ?? d, for a number and for a text
OrNum(input, f, d) ==
    IF f \in DOMAIN input /\ input[f] # NullNum THEN input[f] ELSE d
OrText(input, f, d) ==
    IF f \in DOMAIN input /\ input[f] # Null THEN input[f] ELSE d

-----------------------------------------------------------------------------
(* Ids.  A UUID is modelled by its first ShortIdLen characters followed by *)
(* the rest; the pool holds two ids with a common 8-character prefix.      *)

Uuid(p, s) == [i \in 1..ShortIdLen |-> p] \o <<s>>

UuidPool == {Uuid(1, 1), Uuid(1, 2), Uuid(2, 1)}

\* an id no row has: 'non-existent' in the tests (12 characters)
UnknownId == [i \in 1..12 |-> 0]

ShortOf(id) == SubSeq(id, 1, ShortIdLen)

\* randomUUID(): an id never returned before.  Ids with the same prefix
\* are interchangeable, so of those the one with the least tail comes first.
FreshIds(used) ==
    {id \in UuidPool \ used :
       \A other \in UuidPool \ used :
          ShortOf(other) = ShortOf(id) => other[ShortIdLen + 1] >= id[ShortIdLen + 1]}

\* SQL: id LIKE 'param%'
LikePrefix(id, param) ==
    /\ Len(id) >= Len(param)
    /\ SubSeq(id, 1, Len(param)) = param

-----------------------------------------------------------------------------
(* Texts and their embeddings.  The provider is injected; the one here is  *)
(* deterministic like the tests' MockEmbeddingProvider, and places texts   *)
(* on a line: two of them close together, the third far away.              *)

Contents == {"likes tea", "likes tea!", "owns a car"}

Embed(text) ==
    CASE text = "likes tea" -> 0
      [] text = "likes tea!" -> 2
      [] text = "owns a car" -> 30
      [] OTHER -> 60

\* LanceDB's _distance (squared L2), in hundredths
Distance(v, w) == (v - w) * (v - w)

-----------------------------------------------------------------------------
(* JSON text of a tag list.  A tag is a sequence of characters; the tags   *)
(* of the model hold letters only, so no character needs escaping.         *)

Quote == "\""

RECURSIVE JoinTags(_)
JoinTags(tags) ==
    IF tags = <<>> THEN <<>>
    ELSE IF Len(tags) = 1 THEN <<Quote>> \o tags[1] \o <<Quote>>
    ELSE <<Quote>> \o tags[1] \o <<Quote, ",">> \o JoinTags(Tail(tags))

\* JSON.stringify(tags)
JsonStringify(tags) == <<"[">> \o JoinTags(tags) \o <<"]">>

\* the scanner of JSON.parse on an array of strings: text, position,
\* whether it is inside a string, the string being read, the strings read
RECURSIVE ParseFrom(_, _, _, _, _)
ParseFrom(text, i, inside, cur, acc) ==
    IF i > Len(text) THEN acc
    ELSE IF text[i] = Quote
         THEN IF inside
              THEN ParseFrom(text, i + 1, FALSE, <<>>, Append(acc, cur))
              ELSE ParseFrom(text, i + 1, TRUE, <<>>, acc)
         ELSE IF inside
              THEN ParseFrom(text, i + 1, TRUE, Append(cur, text[i]), acc)
              ELSE ParseFrom(text, i + 1, FALSE, cur, acc)

\* JSON.parse(text)
JsonParse(text) == ParseFrom(text, 1, FALSE, <<>>, <<>>)

TagWork == <<"w", "k">>
TagMeet == <<"m">>
TagShout == <<"W", "k">>
TagHalf == <<"w">>

-----------------------------------------------------------------------------
(* The metadata table *)

Categories == {"fact", "preference", "event"}

\* (v as T | null) ?? undefined, as rowToMemory maps the nullable columns
NullToUndef(v) == IF v = Null THEN Undef ELSE v
NullNumToUndef(v) == IF v = NullNum THEN UndefNum ELSE v

RowToMemory(row) ==
    [id |-> row.id,
     content |-> row.content,
     category |-> row.category,
     confidence |-> row.confidence,
     importance |-> row.importance,
     createdAt |-> row.created_at,
     updatedAt |-> row.updated_at,
     lastAccessedAt |-> row.last_accessed_at,
     decayDays |-> row.decay_days,
     sourceChannel |-> NullToUndef(row.source_channel),
     sourceMessageId |-> NullToUndef(row.source_message_id),
     tags |-> JsonParse(IF row.tags = <<>>
                        THEN JsonStringify(<<>>) ELSE row.tags),
     supersedes |-> NullToUndef(row.supersedes),
     deletedAt |-> NullNumToUndef(row.deleted_at),
     deleteReason |-> NullToUndef(row.delete_reason)]

\* the INSERT with confidence and importance bound to each other's column:
\* a faulty variant the round trip of create must tell from SqlInsert
SqlInsertSwapped(rs, id, input, t) ==
    Append(rs,
      [id |-> id,
       content |-> input.content,
       category |-> input.category,
       confidence |-> OrNum(input, "importance", DefaultImportance),
       importance |-> OrNum(input, "confidence", DefaultConfidence),
       created_at |-> t,
       updated_at |-> t,
       last_accessed_at |-> t,
       decay_days |-> OrNum(input, "decayDays", NullNum),
       source_channel |-> OrText(input, "sourceChannel", Null),
       source_message_id |-> OrText(input, "sourceMessageId", Null),
       tags |-> JsonStringify(IF "tags" \in DOMAIN input
                              THEN input.tags ELSE <<>>),
       supersedes |-> Null,
       deleted_at |-> NullNum,
       delete_reason |-> Null])

\* INSERT INTO memories (...) VALUES (...): the columns the statement does
\* not name (supersedes, deleted_at, delete_reason) are NULL
SqlInsert(rs, id, input, t) ==
    Append(rs,
      [id |-> id,
       content |-> input.content,
       category |-> input.category,
       confidence |-> OrNum(input, "confidence", DefaultConfidence),
       importance |-> OrNum(input, "importance", DefaultImportance),
       created_at |-> t,
       updated_at |-> t,
       last_accessed_at |-> t,
       decay_days |-> OrNum(input, "decayDays", NullNum),
       source_channel |-> OrText(input, "sourceChannel", Null),
       source_message_id |-> OrText(input, "sourceMessageId", Null),
       tags |-> JsonStringify(IF "tags" \in DOMAIN input
                              THEN input.tags ELSE <<>>),
       supersedes |-> Null,
       deleted_at |-> NullNum,
       delete_reason |-> Null])

\* get's queries with "AND deleted_at IS NULL" added: a faulty variant the
\* properties of get must tell from GetRows
GetRowsLive(rs, id) ==
    IF Len(id) = ShortIdLen
    THEN SelectSeq(rs, LAMBDA r: LikePrefix(r.id, id) /\ r.deleted_at = NullNum)
    ELSE SelectSeq(rs, LAMBDA r: r.id = id /\ r.deleted_at = NullNum)

\* SELECT * FROM memories WHERE id = ?            (any other length)
\* SELECT * FROM memories WHERE id LIKE ? LIMIT 1 (an 8-character id):
\* a full scan, which yields rows in rowid order
GetRows(rs, id) ==
    IF Len(id) = ShortIdLen
    THEN SelectSeq(rs, LAMBDA r: LikePrefix(r.id, id))
    ELSE SelectSeq(rs, LAMBDA r: r.id = id)

\* get's null
NullMemory == [null |-> TRUE]

\* get(id)
Get(rs, id) ==
    LET found == GetRows(rs, id)
    IN  IF found = <<>> THEN NullMemory ELSE RowToMemory(found[1])

\* the UPDATE of update clearing deleted_at: a faulty variant the
\* permanence of soft deletion must tell from SqlUpdate
SqlUpdateRevived(rs, id, updates, t) ==
    [i \in 1..Len(rs) |->
       IF rs[i].id # id THEN rs[i]
       ELSE [rs[i] EXCEPT
               !.updated_at = t,
               !.deleted_at = NullNum,
               !.content = IF "content" \in DOMAIN updates
                           THEN updates.content ELSE @,
               !.confidence = IF "confidence" \in DOMAIN updates
                              THEN updates.confidence ELSE @,
               !.importance = IF "importance" \in DOMAIN updates
                              THEN updates.importance ELSE @,
               !.decay_days = IF "decayDays" \in DOMAIN updates
                              THEN updates.decayDays ELSE @,
               !.tags = IF "tags" \in DOMAIN updates
                        THEN JsonStringify(updates.tags) ELSE @]]

\* the UPDATE of update setting last_accessed_at too: a faulty variant the
\* frame of update must tell from SqlUpdate
SqlUpdateAccessed(rs, id, updates, t) ==
    [i \in 1..Len(rs) |->
       IF rs[i].id # id THEN rs[i]
       ELSE [rs[i] EXCEPT
               !.updated_at = t,
               !.last_accessed_at = t,
               !.content = IF "content" \in DOMAIN updates
                           THEN updates.content ELSE @,
               !.confidence = IF "confidence" \in DOMAIN updates
                              THEN updates.confidence ELSE @,
               !.importance = IF "importance" \in DOMAIN updates
                              THEN updates.importance ELSE @,
               !.decay_days = IF "decayDays" \in DOMAIN updates
                              THEN updates.decayDays ELSE @,
               !.tags = IF "tags" \in DOMAIN updates
                        THEN JsonStringify(updates.tags) ELSE @]]

\* UPDATE memories SET updated_at = ?, <each field given> WHERE id = ?
SqlUpdate(rs, id, updates, t) ==
    [i \in 1..Len(rs) |->
       IF rs[i].id # id THEN rs[i]
       ELSE [rs[i] EXCEPT
               !.updated_at = t,
               !.content = IF "content" \in DOMAIN updates
                           THEN updates.content ELSE @,
               !.confidence = IF "confidence" \in DOMAIN updates
                              THEN updates.confidence ELSE @,
               !.importance = IF "importance" \in DOMAIN updates
                              THEN updates.importance ELSE @,
               !.decay_days = IF "decayDays" \in DOMAIN updates
                              THEN updates.decayDays ELSE @,
               !.tags = IF "tags" \in DOMAIN updates
                        THEN JsonStringify(updates.tags) ELSE @]]

\* the resolving SELECT without "AND deleted_at IS NULL": a faulty variant
\* the short-id properties must tell from ResolveFullId
ResolveFullIdAnyRow(rs, id) ==
    LET found == SelectSeq(rs, LAMBDA r: LikePrefix(r.id, id))
    IN  IF Len(id) = ShortIdLen /\ found # <<>> THEN found[1].id ELSE id

\* SELECT id FROM memories WHERE id LIKE ? AND deleted_at IS NULL LIMIT 1,
\* run for an 8-character id only; the id given stands when no row matches
ResolveFullId(rs, id) ==
    LET found == SelectSeq(rs, LAMBDA r: LikePrefix(r.id, id)
                                          /\ r.deleted_at = NullNum)
    IN  IF Len(id) = ShortIdLen /\ found # <<>> THEN found[1].id ELSE id

\* UPDATE memories SET deleted_at = ?, delete_reason = ? WHERE id = ?
SqlSoftDelete(rs, id, t, reason) ==
    [i \in 1..Len(rs) |->
       IF rs[i].id # id THEN rs[i]
       ELSE [rs[i] EXCEPT !.deleted_at = t, !.delete_reason = reason]]

\* the UPDATE of touchMany setting updated_at too: a faulty variant the
\* frame of touchMany must tell from SqlTouch
SqlTouchUpdated(rs, ids, t) ==
    [i \in 1..Len(rs) |->
       IF rs[i].id \in ids
       THEN [rs[i] EXCEPT !.last_accessed_at = t, !.updated_at = t]
       ELSE rs[i]]

\* UPDATE memories SET last_accessed_at = ? WHERE id IN (...)
SqlTouch(rs, ids, t) ==
    [i \in 1..Len(rs) |->
       IF rs[i].id \in ids THEN [rs[i] EXCEPT !.last_accessed_at = t] ELSE rs[i]]

RowIds(rs) == {rs[i].id : i \in 1..Len(rs)}
RowOf(rs, id) == CHOOSE r \in {rs[i] : i \in 1..Len(rs)} : r.id = id
LiveIds(rs) ==
    {rs[i].id : i \in {j \in 1..Len(rs) : rs[j].deleted_at = NullNum}}

-----------------------------------------------------------------------------
(* The vector table *)

\* vectorTable.add([{id, vector, text}])
VecAdd(vs, id, vector, text) ==
    vs \cup {[id |-> id, vector |-> vector, text |-> text]}

\* a vectorTable.update that adds the entry when none has the id: a faulty
\* variant the outcome of an update racing a delete must tell from VecUpdate
VecUpdateUpsert(vs, id, vector, text) ==
    {e \in vs : e.id # id} \cup {[id |-> id, vector |-> vector, text |-> text]}

\* vectorTable.update({where: id = 'id', values: {vector, text}}): the
\* entries with the id rewritten, nothing done when there is none
VecUpdate(vs, id, vector, text) ==
    {IF e.id = id THEN [e EXCEPT !.vector = vector, !.text = text] ELSE e
       : e \in vs}

\* a vectorTable.delete that removes nothing: a faulty variant the agreement
\* of the two stores must tell from VecDelete
VecDeleteNothing(vs, id) == vs

\* vectorTable.delete(id = 'id')
VecDelete(vs, id) == {e \in vs : e.id # id}

VecIds(vs) == {e.id : e \in vs}

Min(a, b) == IF a <= b THEN a ELSE b

\* vectorSearch(queryVector).limit(k).toArray(): the k entries nearest to
\* the query, closest first, each with its _distance.  The index leaves
\* the order of entries at equal distance open: every such list is here.
VectorSearch(vs, queryVector, k) ==
    LET n == Min(k, Cardinality(vs))
        Dist(e) == Distance(e.vector, queryVector)
        lists == {s \in [1..n -> vs] :
                    /\ \A i, j \in 1..n : i < j => s[i] # s[j]
                    /\ \A i, j \in 1..n : i < j => Dist(s[i]) <= Dist(s[j])
                    /\ \A e \in vs : (\A i \in 1..n : s[i] # e) =>
                          \A i \in 1..n : Dist(s[i]) <= Dist(e)}
    IN  {[i \in 1..n |-> [id |-> s[i].id, distance |-> Dist(s[i])]]
           : s \in lists}

\* score = 1 / (1 + distance), as the fraction num/den
ScoreOf(distance) == [num |-> Scale, den |-> Scale + distance]

\* the score 1.0 given to a row the vector lookup did not score
FullScore == [num |-> Scale, den |-> Scale]

\* the comparison turned round: a faulty variant the findDuplicates
\* properties must tell from ScoreBelow
ScoreBelowReversed(score, threshold) == score.num * 100 > threshold * score.den

\* score < threshold, threshold in hundredths
ScoreBelow(score, threshold) == score.num * 100 < threshold * score.den

-----------------------------------------------------------------------------
(* search *)

Range(s) == {s[i] : i \in 1..Len(s)}

\* SQL's case-insensitive LIKE on the letters of the model
Lower(ch) ==
    CASE ch = "W" -> "w"
      [] ch = "K" -> "k"
      [] ch = "M" -> "m"
      [] OTHER -> ch

\* a LIKE that compares the pattern short of its last character, as if the
\* closing quote of '%"tag"%' were left out: a faulty variant the filter
\* properties of search must tell from LikeContains
LikeContainsOpen(text, pattern) ==
    \E start \in 1..(Len(text) - Len(pattern) + 2) :
       \A j \in 1..(Len(pattern) - 1) :
          Lower(text[start + j - 1]) = Lower(pattern[j])

\* text LIKE '%pattern%', the pattern holding no % and no _
LikeContains(text, pattern) ==
    \E start \in 1..(Len(text) - Len(pattern) + 1) :
       \A j \in 1..Len(pattern) :
          Lower(text[start + j - 1]) = Lower(pattern[j])

\* opts.limit ?? 10
LimitOf(opts) == OrNum(opts, "limit", DefaultSearchLimit)

\* if (opts.query): a query that is given and is not the empty text
HasQuery(opts) == "query" \in DOMAIN opts /\ opts.query # ""

\* lines 245-258: the vector lookup, over-fetching twice the limit; the
\* lists it may return, <<>> alone when no query is given
VectorLookup(vs, opts) ==
    IF HasQuery(opts)
    THEN VectorSearch(vs, Embed(opts.query), LimitOf(opts) * 2)
    ELSE {<<>>}

\* the decay test with >= for >: a faulty variant the decay properties must
\* tell from NotDecayed
NotDecayedAtAge(row, t) ==
    \/ row.decay_days = NullNum
    \/ row.created_at + row.decay_days * DayMs >= t

\* decay_days IS NULL OR (created_at + decay_days * 86400000) > ?
NotDecayed(row, t) ==
    \/ row.decay_days = NullNum
    \/ row.created_at + row.decay_days * DayMs > t

\* the WHERE clause without "deleted_at IS NULL": a faulty variant the
\* properties of search must tell from SearchWhere
SearchWhereDeleted(row, vectorIds, opts, t) ==
    /\ vectorIds # <<>> => row.id \in Range(vectorIds)
    /\ ("category" \in DOMAIN opts /\ opts.category # "")
          => row.category = opts.category
    /\ "minConfidence" \in DOMAIN opts
          => row.confidence >= opts.minConfidence
    /\ "minImportance" \in DOMAIN opts
          => row.importance >= opts.minImportance
    /\ "tags" \in DOMAIN opts
          => \A k \in 1..Len(opts.tags) :
                LikeContains(row.tags, <<Quote>> \o opts.tags[k] \o <<Quote>>)
    /\ ("excludeDecayed" \notin DOMAIN opts \/ opts.excludeDecayed # FALSE)
          => NotDecayed(row, t)

\* lines 260-295: the WHERE clause of search
SearchWhere(row, vectorIds, opts, t) ==
    /\ row.deleted_at = NullNum
    /\ vectorIds # <<>> => row.id \in Range(vectorIds)
    /\ ("category" \in DOMAIN opts /\ opts.category # "")
          => row.category = opts.category
    /\ "minConfidence" \in DOMAIN opts
          => row.confidence >= opts.minConfidence
    /\ "minImportance" \in DOMAIN opts
          => row.importance >= opts.minImportance
    /\ "tags" \in DOMAIN opts
          => \A k \in 1..Len(opts.tags) :
                LikeContains(row.tags, <<Quote>> \o opts.tags[k] \o <<Quote>>)
    /\ ("excludeDecayed" \notin DOMAIN opts \/ opts.excludeDecayed # FALSE)
          => NotDecayed(row, t)

\* SELECT ... LIMIT n with no ORDER BY: n of the matching rows (all of them
\* when there are fewer), in an order the query planner picks
SqlLimit(matching, n) ==
    LET m == Min(n, Cardinality(matching))
    IN  {s \in [1..m -> matching] : \A i, j \in 1..m : i < j => s[i] # s[j]}

\* idOrder.get(id) ?? 999: the first position of id in vectorIds, from 0
RankOf(id, vectorIds) ==
    LET at == {i \in 1..Len(vectorIds) : vectorIds[i] = id}
    IN  IF at = {} THEN 999
        ELSE (CHOOSE i \in at : \A j \in at : i <= j) - 1

\* the results of rank k and above, in rank order; those of equal rank
\* keep their order (Array.prototype.sort is stable)
RECURSIVE SortFrom(_, _, _)
SortFrom(results, vectorIds, k) ==
    IF k > Len(vectorIds)
    THEN SelectSeq(results, LAMBDA r : RankOf(r.memory.id, vectorIds) >= k)
    ELSE SelectSeq(results, LAMBDA r : RankOf(r.memory.id, vectorIds) = k)
           \o SortFrom(results, vectorIds, k + 1)

\* the sort with the comparison turned round, farthest first: a faulty
\* variant the order of search results must tell from SortByRank
SortByRankFarthest(results, vectorIds) ==
    LET sorted == SortFrom(results, vectorIds, 0)
    IN  [i \in 1..Len(sorted) |-> sorted[Len(sorted) + 1 - i]]

\* results.sort((a, b) => rank(a) - rank(b))
SortByRank(results, vectorIds) == SortFrom(results, vectorIds, 0)

\* lines 260-316: what search does once the vector lookup has answered
\* `ranked`: the SQL query, the scores, the order
SearchTail(rs, ranked, opts, t) ==
    LET vectorIds == [i \in 1..Len(ranked) |-> ranked[i].id]
        ScoreFor(id) ==
            IF \E i \in 1..Len(ranked) : ranked[i].id = id
            THEN ScoreOf((CHOOSE e \in Range(ranked) : e.id = id).distance)
            ELSE FullScore
        matching == {r \in Range(rs) : SearchWhere(r, vectorIds, opts, t)}
        Results(found) ==
            [i \in 1..Len(found) |->
               [memory |-> RowToMemory(found[i]), score |-> ScoreFor(found[i].id)]]
    IN  {IF vectorIds # <<>>
         THEN SortByRank(Results(found), vectorIds)
         ELSE Results(found)
           : found \in SqlLimit(matching, LimitOf(opts))}

\* search(opts): every result the call may return
Search(rs, vs, opts, t) ==
    UNION {SearchTail(rs, ranked, opts, t) : ranked \in VectorLookup(vs, opts)}

-----------------------------------------------------------------------------
(* findDuplicates *)

\* findDuplicates without the deletedAt test of line 362: a faulty variant
\* the properties of delete must tell from DuplicatesTail
DuplicatesTailDeleted(rs, results, threshold) ==
    IF results = <<>> THEN <<>>
    ELSE LET score == ScoreOf(results[1].distance)
             memory == Get(rs, results[1].id)
         IN  IF ScoreBelow(score, threshold) THEN <<>>
             ELSE IF memory = NullMemory
                  THEN <<>>
                  ELSE <<[memory |-> memory, score |-> score]>>

\* lines 356-366: what findDuplicates does with the nearest entry
DuplicatesTail(rs, results, threshold) ==
    IF results = <<>> THEN <<>>
    ELSE LET score == ScoreOf(results[1].distance)
             memory == Get(rs, results[1].id)
         IN  IF ScoreBelow(score, threshold) THEN <<>>
             ELSE IF memory = NullMemory \/ memory.deletedAt # UndefNum
                  THEN <<>>
                  ELSE <<[memory |-> memory, score |-> score]>>

\* findDuplicates(content, threshold): every result the call may return
FindDuplicates(rs, vs, content, threshold) ==
    {DuplicatesTail(rs, results, threshold)
       : results \in VectorSearch(vs, Embed(content), 1)}

-----------------------------------------------------------------------------
(* list, count *)

\* sortBy.replace(/([A-Z])/g, '_$1').toLowerCase(), on the attributes the
\* model sorts by
SortColOf(sortBy) ==
    CASE sortBy = "createdAt" -> "created_at"
      [] sortBy = "updatedAt" -> "updated_at"
      [] sortBy = "lastAccessedAt" -> "last_accessed_at"
      [] OTHER -> sortBy

\* opts.sortOrder ?? 'asc': a faulty variant the order of list must tell
\* from SortOrderOf
SortOrderOfAsc(opts) == OrText(opts, "sortOrder", "asc")

\* opts.sortOrder ?? 'desc'
SortOrderOf(opts) == OrText(opts, "sortOrder", "desc")

\* WHERE deleted_at IS NULL [AND category = ?]
ListWhere(row, opts) ==
    /\ row.deleted_at = NullNum
    /\ ("category" \in DOMAIN opts /\ opts.category # "")
          => row.category = opts.category

\* ORDER BY col order: every arrangement of the rows in that order; SQL
\* leaves the order of rows equal in col open, and each query makes its own
OrderBy(matching, col, order) ==
    LET n == Cardinality(matching)
    IN  {s \in [1..n -> matching] :
           /\ \A i, j \in 1..n : i < j => s[i] # s[j]
           /\ \A i, j \in 1..n : i < j =>
                 IF order = "desc" THEN s[i][col] >= s[j][col]
                                   ELSE s[i][col] <= s[j][col]}

\* LIMIT ? OFFSET ?
LimitOffset(s, limit, offset) == SubSeq(s, offset + 1, Min(offset + limit, Len(s)))

\* list(opts), lines 320-344: every {total, items} the call may return
List(rs, opts) ==
    LET sortCol == SortColOf(OrText(opts, "sortBy", "created_at"))
        matching == {r \in Range(rs) : ListWhere(r, opts)}
        Items(page) == [i \in 1..Len(page) |-> RowToMemory(page[i])]
    IN  {[total |-> Cardinality(matching),
          items |-> Items(LimitOffset(s, OrNum(opts, "limit", DefaultListLimit),
                                      OrNum(opts, "offset", 0)))]
           : s \in OrderBy(matching, sortCol, SortOrderOf(opts))}

\* SELECT COUNT(*) FROM memories, the WHERE left out: a faulty variant the
\* properties of count must tell from Count
CountAll(rs) == Len(rs)

\* SELECT COUNT(*) FROM memories WHERE deleted_at IS NULL
Count(rs) == Cardinality({i \in 1..Len(rs) : rs[i].deleted_at = NullNum})

-----------------------------------------------------------------------------
(* getByCategory *)

\* the WHERE clause with the decay test of search added: a faulty variant
\* the reads that ignore decay must tell from CategoryWhere
CategoryWhereFresh(row, category, t) ==
    /\ row.category = category
    /\ row.deleted_at = NullNum
    /\ NotDecayed(row, t)

\* WHERE category = ? AND deleted_at IS NULL; the time is not looked at
CategoryWhere(row, category, t) ==
    /\ row.category = category
    /\ row.deleted_at = NullNum

\* ORDER BY importance DESC, created_at DESC: every arrangement of the rows
\* in that order, rows equal in both columns in an order SQL leaves open
ByImportance(matching) ==
    LET n == Cardinality(matching)
    IN  {s \in [1..n -> matching] :
           /\ \A i, j \in 1..n : i < j => s[i] # s[j]
           /\ \A i, j \in 1..n : i < j =>
                 \/ s[i].importance > s[j].importance
                 \/ /\ s[i].importance = s[j].importance
                    /\ s[i].created_at >= s[j].created_at}

\* getByCategory(category, limit = 50) called at time t, lines 386-393:
\* every list the call may return
GetByCategory(rs, category, limit, t) ==
    LET n == IF limit = UndefNum THEN DefaultCategoryLimit ELSE limit
        matching == {r \in Range(rs) : CategoryWhere(r, category, t)}
    IN  {[i \in 1..Min(n, Len(s)) |-> RowToMemory(s[i])]
           : s \in ByImportance(matching)}

-----------------------------------------------------------------------------
(* Inputs *)

CreateInputs ==
    {[content |-> "likes tea", category |-> "fact"],
     [content |-> "likes tea!", category |-> "event",
      confidence |-> 90, importance |-> 70, decayDays |-> 1,
      sourceChannel |-> "chat", sourceMessageId |-> "m1",
      tags |-> <<TagMeet, TagWork>>]}

NoFields == [f \in {} |-> 0]

UpdateInputs ==
    {NoFields,
     [content |-> "owns a car"],
     [content |-> "likes tea!"],
     [confidence |-> 60, importance |-> 20, decayDays |-> NullNum,
      tags |-> <<TagWork>>]}

SearchInputs ==
    {NoFields,
     [limit |-> 1],
     [excludeDecayed |-> FALSE],
     [excludeDecayed |-> FALSE, limit |-> 1],
     [excludeDecayed |-> TRUE, category |-> "event"],
     [query |-> "likes tea"],
     [query |-> "likes tea", limit |-> 1],
     [query |-> "owns a car", excludeDecayed |-> FALSE],
     [minConfidence |-> 90, minImportance |-> 60, tags |-> <<TagShout>>],
     [category |-> "fact", tags |-> <<TagHalf>>]}

\* what list is asked for, limit and offset apart
ListBases ==
    {NoFields,
     [category |-> "fact"],
     [sortBy |-> "importance"],
     [sortBy |-> "updatedAt", sortOrder |-> "asc"],
     [category |-> "event", sortBy |-> "createdAt", sortOrder |-> "desc"]}

\* the page sizes asked for
PageSizes == {1, 2}

\* the options `base` with limit L and offset k * L
Paged(base, L, k) ==
    [f \in DOMAIN base \cup {"limit", "offset"} |->
       IF f = "limit" THEN L ELSE IF f = "offset" THEN k * L ELSE base[f]]

\* the pages needed to walk through n rows, and one more
PagesOf(n) == 0..n

ListInputs ==
    ListBases \cup {Paged(base, L, k) : base \in ListBases, L \in PageSizes,
                                        k \in PagesOf(Len(rows))}

Thresholds == {DefaultThreshold, 97}

\* limit of getByCategory: left out, or 1
CategoryLimits == {UndefNum, 1}

\* reason?: string
Reasons == {Undef, "outdated"}

\* the ids a caller passes: full ids, their 8-character prefixes, and one
\* that was never stored
CallIds == UuidPool \cup {ShortOf(u) : u \in UuidPool} \cup {UnknownId}

-----------------------------------------------------------------------------
(* Operations, each run to completion *)

\* the callers that may have calls in flight at the same time
Procs == {"p", "q"}

\* no call in flight
Idle == [pc |-> "idle"]

\* the vector table opened: initVectorDb has run, on a directory in which
\* it had to create the table
Opened ==
    [vectorTable |-> TRUE, initPromise |-> "fulfilled", step |-> "done",
     onDisk |-> TRUE, started |-> 1, created |-> 1]

\* no call has failed in the embedding provider
NoFailure == [op |-> "none", error |-> "none", embedCalls |-> 0]

Init ==
    /\ failed = NoFailure
    /\ vdb = Opened
    /\ now = 1
    /\ rows = <<>>
    /\ vecs = {}
    /\ issued = {}
    /\ born = [id \in {} |-> ""]
    /\ calls = 0
    /\ procs = [p \in Procs |-> Idle]

\* the instants at which calls are made
Instants == {1} \cup {DayMs + k : k \in 1..LateInstants}

\* time passes between calls, by a millisecond or by a day
Tick ==
    /\ \E d \in {1, DayMs} :
          /\ now' = now + d
          /\ now' \in Instants
    /\ UNCHANGED <<rows, vecs, issued, born, calls, procs>>
    /\ UNCHANGED <<vdb, failed>>

\* one more call is made
Called ==
    /\ calls < MaxCalls
    /\ calls' = calls + 1

\* create(input) returning: lines 113-150
CreateOp(input, id) ==
    /\ Called
    /\ id \in FreshIds(issued)
    /\ issued' = issued \cup {id}
    /\ born' = [x \in issued' |-> IF x = id THEN input.content ELSE born[x]]
    /\ vecs' = VecAdd(vecs, id, Embed(input.content), input.content)
    /\ rows' = SqlInsert(rows, id, input, now)
    /\ UNCHANGED <<now, procs>>
    /\ UNCHANGED <<vdb, failed>>

Create == \E input \in CreateInputs, id \in UuidPool : CreateOp(input, id)

\* create(input) with stmt.run (line 135) throwing, after vectorTable.add
\* (line 120) has resolved: nothing in create catches the exception
CreateInsertFailsOp(input, id) ==
    /\ Called
    /\ id \in FreshIds(issued)
    /\ issued' = issued \cup {id}
    /\ born' = [x \in issued' |-> IF x = id THEN input.content ELSE born[x]]
    /\ vecs' = VecAdd(vecs, id, Embed(input.content), input.content)
    /\ UNCHANGED <<now, rows, procs>>
    /\ UNCHANGED <<vdb, failed>>

CreateInsertFails ==
    \E input \in CreateInputs, id \in UuidPool : CreateInsertFailsOp(input, id)

\* update(id, updates): lines 171-210; it returns get(id)
UpdateOp(id, updates) ==
    /\ Called
    /\ vecs' = IF "content" \in DOMAIN updates
               THEN VecUpdate(vecs, id, Embed(updates.content), updates.content)
               ELSE vecs
    /\ rows' = SqlUpdate(rows, id, updates, now)
    /\ UNCHANGED <<now, issued, born, procs>>
    /\ UNCHANGED <<vdb, failed>>

Update == \E id \in CallIds, updates \in UpdateInputs : UpdateOp(id, updates)

\* reason ?? null
ReasonOrNull(reason) == IF reason = Undef THEN Null ELSE reason

\* delete(id, reason): lines 216-235
DeleteOp(id, reason) ==
    /\ Called
    /\ rows' = SqlSoftDelete(rows, ResolveFullId(rows, id), now,
                             ReasonOrNull(reason))
    /\ vecs' = VecDelete(vecs, ResolveFullId(rows, id))
    /\ UNCHANGED <<now, issued, born, procs>>
    /\ UNCHANGED <<vdb, failed>>

Delete == \E id \in CallIds, reason \in Reasons : DeleteOp(id, reason)

\* delete(id, reason) with vectorTable.delete (line 235) rejecting, after
\* the soft delete (line 228) has run
DeleteVectorFailsOp(id, reason) ==
    /\ Called
    /\ rows' = SqlSoftDelete(rows, ResolveFullId(rows, id), now,
                             ReasonOrNull(reason))
    /\ UNCHANGED <<now, vecs, issued, born, procs>>
    /\ UNCHANGED <<vdb, failed>>

DeleteVectorFails ==
    \E id \in CallIds, reason \in Reasons : DeleteVectorFailsOp(id, reason)

\* the id lists touchMany is given: stored ids, a prefix, an id never stored
TouchLists == SUBSET {Uuid(1, 1), Uuid(1, 2), ShortOf(Uuid(1, 1)), UnknownId}

\* touchMany(ids): lines 370-375
TouchManyOp(ids) ==
    /\ Called
    /\ rows' = IF ids = {} THEN rows ELSE SqlTouch(rows, ids, now)
    /\ UNCHANGED <<now, vecs, issued, born, procs, vdb>>
    /\ UNCHANGED failed

TouchMany == \E ids \in TouchLists : TouchManyOp(ids)

\* calls made one at a time, none failing
NextOk ==
    \/ Tick
    \/ Create
    \/ Update
    \/ Delete

SpecOk == Init /\ [][NextOk]_vars

\* embed rejecting twice, the call retrying once: a faulty variant the
\* properties of a failing provider must tell from ProviderFailure
ProviderFailureRetried(op) == [op |-> op, error |-> "provider", embedCalls |-> 2]

\* await this.embeddings.embed(...) rejecting (lines 117, 179, 246, 350):
\* the one call of embed throws the provider's error out of the method
ProviderFailure(op) == [op |-> op, error |-> "provider", embedCalls |-> 1]

\* create(input) with embed (line 117) rejecting: the id is taken at line
\* 113 already
CreateEmbedFailsOp(input, id) ==
    /\ Called
    /\ id \in FreshIds(issued)
    /\ issued' = issued \cup {id}
    /\ born' = [x \in issued' |-> IF x = id THEN input.content ELSE born[x]]
    /\ failed' = ProviderFailure("create")
    /\ UNCHANGED <<now, rows, vecs, procs, vdb>>

CreateEmbedFails ==
    \E input \in CreateInputs, id \in UuidPool : CreateEmbedFailsOp(input, id)

\* update(id, updates) with content given and embed (line 179) rejecting
UpdateEmbedFailsOp(id, updates) ==
    /\ Called
    /\ "content" \in DOMAIN updates
    /\ failed' = ProviderFailure("update")
    /\ UNCHANGED <<now, rows, vecs, issued, born, procs, vdb>>

UpdateEmbedFails ==
    \E id \in CallIds, updates \in UpdateInputs : UpdateEmbedFailsOp(id, updates)

\* search(opts) with a query and embed (line 246) rejecting
SearchEmbedFailsOp(opts) ==
    /\ HasQuery(opts)
    /\ failed' = ProviderFailure("search")
    /\ UNCHANGED <<now, rows, vecs, issued, born, calls, procs, vdb>>

SearchEmbedFails == \E opts \in SearchInputs : SearchEmbedFailsOp(opts)

\* findDuplicates(content, threshold) with embed (line 350) rejecting
FindDuplicatesEmbedFailsOp(content, threshold) ==
    /\ failed' = ProviderFailure("findDuplicates")
    /\ UNCHANGED <<now, rows, vecs, issued, born, calls, procs, vdb>>

FindDuplicatesEmbedFails ==
    \E content \in Contents, threshold \in Thresholds :
       FindDuplicatesEmbedFailsOp(content, threshold)

\* calls made one at a time, the embedding provider failing now and then
NextE ==
    \/ Tick
    \/ Create
    \/ Update
    \/ Delete
    \/ CreateEmbedFails
    \/ UpdateEmbedFails
    \/ SearchEmbedFails
    \/ FindDuplicatesEmbedFails

SpecE == Init /\ [][NextE]_vars

\* calls made one at a time, a storage write failing now and then
Next ==
    \/ Tick
    \/ Create
    \/ CreateInsertFails
    \/ Update
    \/ Delete
    \/ DeleteVectorFails
    \/ TouchMany

Spec == Init /\ [][Next]_vars

-----------------------------------------------------------------------------
(* Calls in flight together.  A call runs without interruption from one    *)
(* await to the next; the SQLite statements are synchronous.  Each action  *)
(* below is one such stretch of one caller's call.                         *)

IsIdle(p) == procs[p].pc = "idle"

\* the callers are alike, so a new call is given to the first caller that is
\* free: "q" begins a call only while "p" has one in flight
MayBegin(p) == IsIdle(p) /\ (p = "q" => ~IsIdle("p"))

\* one more create, update or delete call, while calls in flight together
\* are still to be made
CalledC ==
    /\ calls < MaxCallsC
    /\ calls' = calls + 1
At(p, pc) == procs[p].pc = pc
Goto(p, state) == procs' = [procs EXCEPT ![p] = state]

\* create, lines 113-117: the id and the time are taken, embed is awaited
CreateBegin(p, input, id) ==
    /\ MayBegin(p)
    /\ CalledC
    /\ id \in FreshIds(issued)
    /\ issued' = issued \cup {id}
    /\ born' = [x \in issued' |-> IF x = id THEN input.content ELSE born[x]]
    /\ Goto(p, [pc |-> "create_add", input |-> input, id |-> id, t |-> now])
    /\ UNCHANGED <<now, rows, vecs>>
    /\ UNCHANGED <<vdb, failed>>

\* create, line 120: vectorTable.add
CreateAdd(p) ==
    /\ At(p, "create_add")
    /\ vecs' = VecAdd(vecs, procs[p].id, Embed(procs[p].input.content),
                      procs[p].input.content)
    /\ Goto(p, [procs[p] EXCEPT !.pc = "create_insert"])
    /\ UNCHANGED <<now, rows, issued, born, calls>>
    /\ UNCHANGED <<vdb, failed>>

\* create, lines 127-150: the insert, and get
CreateInsert(p) ==
    /\ At(p, "create_insert")
    /\ rows' = SqlInsert(rows, procs[p].id, procs[p].input, procs[p].t)
    /\ Goto(p, Idle)
    /\ UNCHANGED <<now, vecs, issued, born, calls>>
    /\ UNCHANGED <<vdb, failed>>

\* create, line 135 throwing
CreateInsertThrows(p) ==
    /\ At(p, "create_insert")
    /\ Goto(p, Idle)
    /\ UNCHANGED <<now, rows, vecs, issued, born, calls>>
    /\ UNCHANGED <<vdb, failed>>

\* update, lines 171-179 with content given: the time is taken, embed is
\* awaited; and with no content given, lines 171-210, the whole call
UpdateBegin(p, id, updates) ==
    /\ MayBegin(p)
    /\ CalledC
    /\ IF "content" \in DOMAIN updates
       THEN /\ Goto(p, [pc |-> "update_vec", id |-> id, updates |-> updates,
                        t |-> now])
            /\ UNCHANGED rows
       ELSE /\ rows' = SqlUpdate(rows, id, updates, now)
            /\ UNCHANGED procs
    /\ UNCHANGED <<now, vecs, issued, born>>
    /\ UNCHANGED <<vdb, failed>>

\* update, line 180: vectorTable.update
UpdateVec(p) ==
    /\ At(p, "update_vec")
    /\ vecs' = VecUpdate(vecs, procs[p].id, Embed(procs[p].updates.content),
                         procs[p].updates.content)
    /\ Goto(p, [procs[p] EXCEPT !.pc = "update_sql"])
    /\ UNCHANGED <<now, rows, issued, born, calls>>
    /\ UNCHANGED <<vdb, failed>>

\* update, lines 186-210: the UPDATE statement, and get
UpdateSql(p) ==
    /\ At(p, "update_sql")
    /\ rows' = SqlUpdate(rows, procs[p].id, procs[p].updates, procs[p].t)
    /\ Goto(p, Idle)
    /\ UNCHANGED <<now, vecs, issued, born, calls>>
    /\ UNCHANGED <<vdb, failed>>

\* delete, lines 216-232: the id resolved, the soft delete
DeleteBegin(p, id, reason) ==
    /\ MayBegin(p)
    /\ CalledC
    /\ rows' = SqlSoftDelete(rows, ResolveFullId(rows, id), now,
                             ReasonOrNull(reason))
    /\ Goto(p, [pc |-> "delete_vec", fullId |-> ResolveFullId(rows, id)])
    /\ UNCHANGED <<now, vecs, issued, born>>
    /\ UNCHANGED <<vdb, failed>>

\* delete, line 235: vectorTable.delete
DeleteVec(p) ==
    /\ At(p, "delete_vec")
    /\ vecs' = VecDelete(vecs, procs[p].fullId)
    /\ Goto(p, Idle)
    /\ UNCHANGED <<now, rows, issued, born, calls>>
    /\ UNCHANGED <<vdb, failed>>

\* delete, line 235 rejecting
DeleteVecRejects(p) ==
    /\ At(p, "delete_vec")
    /\ Goto(p, Idle)
    /\ UNCHANGED <<now, rows, vecs, issued, born, calls>>
    /\ UNCHANGED <<vdb, failed>>

\* search with a query, lines 245-258: embed and the vector lookup
SearchBegin(p, opts) ==
    /\ MayBegin(p)
    /\ HasQuery(opts)
    /\ \E ranked \in VectorLookup(vecs, opts) :
          Goto(p, [pc |-> "search_sql", opts |-> opts, ranked |-> ranked])
    /\ UNCHANGED <<now, rows, vecs, issued, born, calls>>
    /\ UNCHANGED <<vdb, failed>>

\* the results a search in flight returns if it goes on now
SearchReturns(p) == SearchTail(rows, procs[p].ranked, procs[p].opts, now)

\* search, lines 260-316: the SQL query and the result
SearchEnd(p) ==
    /\ At(p, "search_sql")
    /\ SearchReturns(p) # {}
    /\ Goto(p, Idle)
    /\ UNCHANGED <<now, rows, vecs, issued, born, calls>>
    /\ UNCHANGED <<vdb, failed>>

NextC ==
    \/ \E p \in Procs :
          \/ \E input \in CreateInputs, id \in UuidPool : CreateBegin(p, input, id)
          \/ CreateAdd(p)
          \/ CreateInsert(p)
          \/ CreateInsertThrows(p)
          \/ \E id \in CallIds, updates \in UpdateInputs : UpdateBegin(p, id, updates)
          \/ UpdateVec(p)
          \/ UpdateSql(p)
          \/ \E id \in CallIds, reason \in Reasons : DeleteBegin(p, id, reason)
          \/ DeleteVec(p)
          \/ DeleteVecRejects(p)
          \/ \E opts \in SearchInputs : SearchBegin(p, opts)
          \/ SearchEnd(p)

\* calls of two callers interleaved, a storage write failing now and then;
\* the calls overlap within one millisecond of the clock
SpecC == Init /\ [][NextC]_vars

\* the store constructed on a directory that holds one memory, created at
\* time 1 in an earlier lifetime, a day before
InitOne ==
    /\ failed = NoFailure
    /\ vdb = Opened
    /\ now = 1 + DayMs
    /\ rows = SqlInsert(<<>>, Uuid(1, 1),
                        [content |-> "likes tea", category |-> "fact"], 1)
    /\ vecs = VecAdd({}, Uuid(1, 1), Embed("likes tea"), "likes tea")
    /\ issued = {Uuid(1, 1)}
    /\ born = [id \in {Uuid(1, 1)} |-> "likes tea"]
    /\ calls = 0
    /\ procs = [p \in Procs |-> Idle]

\* the ids a caller can have learnt: those of the rows there are, from
\* create or a read, in full or cut to 8 characters, and one never stored
KnownIds ==
    RowIds(rows) \cup {ShortOf(id) : id \in RowIds(rows)} \cup {UnknownId}

\* touchMany(ids), lines 370-375: it awaits nothing, so it runs whole
\* between the steps of the calls in flight
TouchManyNow(p, ids) ==
    /\ MayBegin(p)
    /\ CalledC
    /\ rows' = IF ids = {} THEN rows ELSE SqlTouch(rows, ids, now)
    /\ UNCHANGED <<now, vecs, issued, born, procs>>
    /\ UNCHANGED <<vdb, failed>>

NextCOk ==
    \E p \in Procs :
       \/ \E input \in CreateInputs, id \in UuidPool : CreateBegin(p, input, id)
       \/ CreateAdd(p)
       \/ CreateInsert(p)
       \/ \E id \in KnownIds, updates \in UpdateInputs : UpdateBegin(p, id, updates)
       \/ UpdateVec(p)
       \/ UpdateSql(p)
       \/ \E id \in KnownIds, reason \in Reasons : DeleteBegin(p, id, reason)
       \/ DeleteVec(p)
       \/ \E ids \in TouchLists : TouchManyNow(p, ids)

\* create, update, delete and touchMany calls of two callers interleaved,
\* none failing
SpecCOk == InitOne /\ [][NextCOk]_vars

\* update(id, {content}) and delete(id) in flight together: the two storage
\* steps of each, in the order of the code
RaceSteps == <<"updateVec", "updateSql", "deleteSql", "deleteVec">>

\* the orders in which the four steps can take place: each call's first
\* step before its second
Schedules ==
    {s \in [1..4 -> 1..4] :
       /\ \A i, j \in 1..4 : s[i] = s[j] => i = j
       /\ \A i, j \in 1..4 : (s[i] = 1 /\ s[j] = 2) => i < j
       /\ \A i, j \in 1..4 : (s[i] = 3 /\ s[j] = 4) => i < j}

\* one step of the two calls on the stores st = [rows, vecs]
RaceStep(st, step, id, updates, reason, t) ==
    CASE step = "updateVec" ->
           [st EXCEPT !.vecs = VecUpdate(@, id, Embed(updates.content),
                                         updates.content)]
      [] step = "updateSql" ->
           [st EXCEPT !.rows = SqlUpdate(@, id, updates, t)]
      [] step = "deleteSql" ->
           [st EXCEPT !.rows = SqlSoftDelete(@, ResolveFullId(@, id), t,
                                             ReasonOrNull(reason))]
      [] step = "deleteVec" ->
           [st EXCEPT !.vecs = VecDelete(@, id)]

RECURSIVE RaceRun(_, _, _, _, _, _, _)
RaceRun(st, s, i, id, updates, reason, t) ==
    IF i > 4 THEN st
    ELSE RaceRun(RaceStep(st, RaceSteps[s[i]], id, updates, reason, t),
                 s, i + 1, id, updates, reason, t)

\* the stores both calls leave, one pair for each order of the steps
RaceOutcomes(rs, vs, id, updates, reason, t) ==
    {RaceRun([rows |-> rs, vecs |-> vs], s, 1, id, updates, reason, t)
       : s \in Schedules}

-----------------------------------------------------------------------------
(* Opening the vector table.  The store is constructed with vectorTable    *)
(* and initPromise null; every async method begins with ensureVectorDb.    *)

\* the row createTable is given to fix the schema: id '__schema__', a
\* vector of zeros that no content embeds to, text ''
SchemaId == [i \in 1..10 |-> 0]
SchemaVector == 0 - 10
SchemaRow == [id |-> SchemaId, vector |-> SchemaVector, text |-> ""]

\* the store as the constructor leaves it, in a directory with or without
\* a vector table from an earlier lifetime
Unopened(onDisk) ==
    [vectorTable |-> FALSE, initPromise |-> "null", step |-> "none",
     onDisk |-> onDisk, started |-> 0, created |-> 0]

InitV ==
    /\ failed = NoFailure
    /\ \E onDisk \in BOOLEAN : vdb = Unopened(onDisk)
    /\ now = 1
    /\ rows = <<>>
    /\ vecs = {}
    /\ issued = {}
    /\ born = [id \in {} |-> ""]
    /\ calls = 0
    /\ procs = [p \in Procs |-> Idle]

\* if (this.initPromise), with a test that never holds: a faulty variant
\* the sharing of the initialization must tell from InitInFlight
InitInFlightNever(v) == FALSE

\* line 85: if (this.initPromise)
InitInFlight(v) == v.initPromise # "null"

\* a caller begins an async method: ensureVectorDb, lines 84-88, and, when
\* it is the first, initVectorDb up to its first await, lines 92-93
EnsureBegin(p) ==
    /\ MayBegin(p)
    /\ IF vdb.vectorTable
       THEN /\ Goto(p, [pc |-> "ready"])
            /\ UNCHANGED vdb
       ELSE IF InitInFlight(vdb)
       THEN /\ Goto(p, [pc |-> "await_init"])
            /\ UNCHANGED vdb
       ELSE /\ Goto(p, [pc |-> "await_init"])
            /\ vdb' = [vdb EXCEPT !.initPromise = "pending",
                                  !.step = "connect",
                                  !.started = @ + 1]
    /\ UNCHANGED <<now, rows, vecs, issued, born, calls>>
    /\ UNCHANGED failed

\* line 93: lancedb.connect resolves; tableNames is asked for
InitConnect ==
    /\ vdb.step = "connect"
    /\ vdb' = [vdb EXCEPT !.step = "tableNames"]
    /\ UNCHANGED <<now, rows, vecs, issued, born, calls, procs>>
    /\ UNCHANGED failed

\* lines 95-97: tableNames resolves; the table is opened or created
InitTableNames ==
    /\ vdb.step = "tableNames"
    /\ vdb' = [vdb EXCEPT !.step = IF vdb.onDisk THEN "openTable"
                                                 ELSE "createTable"]
    /\ UNCHANGED <<now, rows, vecs, issued, born, calls, procs>>
    /\ UNCHANGED failed

\* line 98: openTable resolves, vectorTable is set, initVectorDb returns
InitOpen ==
    /\ vdb.step = "openTable"
    /\ vdb' = [vdb EXCEPT !.vectorTable = TRUE, !.step = "done",
                          !.initPromise = "fulfilled"]
    /\ UNCHANGED <<now, rows, vecs, issued, born, calls, procs>>
    /\ UNCHANGED failed

\* lines 101-106: createTable resolves, the table there with the schema
\* row in it; vectorTable is set and the delete of that row is begun
InitCreate ==
    /\ vdb.step = "createTable"
    /\ vecs' = vecs \cup {SchemaRow}
    /\ vdb' = [vdb EXCEPT !.vectorTable = TRUE, !.step = "deleteSchema",
                          !.onDisk = TRUE, !.created = @ + 1]
    /\ UNCHANGED <<now, rows, issued, born, calls, procs>>
    /\ UNCHANGED failed

\* line 106: the delete of the schema row resolves, initVectorDb returns
InitDeleteSchema ==
    /\ vdb.step = "deleteSchema"
    /\ vecs' = VecDelete(vecs, SchemaId)
    /\ vdb' = [vdb EXCEPT !.step = "done", !.initPromise = "fulfilled"]
    /\ UNCHANGED <<now, rows, issued, born, calls, procs>>
    /\ UNCHANGED failed

\* lines 93-106: the call initVectorDb awaits rejects, and so does
\* initPromise, which stays
InitRejects ==
    /\ vdb.step \in {"connect", "tableNames", "openTable", "createTable",
                      "deleteSchema"}
    /\ vdb' = [vdb EXCEPT !.step = "failed", !.initPromise = "rejected"]
    /\ UNCHANGED <<now, rows, vecs, issued, born, calls, procs>>
    /\ UNCHANGED failed

\* a caller awaiting initPromise goes on with its method, or fails with it
AwaitInit(p) ==
    /\ At(p, "await_init")
    /\ vdb.initPromise \in {"fulfilled", "rejected"}
    /\ Goto(p, IF vdb.initPromise = "fulfilled" THEN [pc |-> "ready"] ELSE Idle)
    /\ UNCHANGED <<now, rows, vecs, issued, born, calls, vdb>>
    /\ UNCHANGED failed

\* past ensureVectorDb the caller's method is create: lines 113-150
ReadyCreate(p, input, id) ==
    /\ At(p, "ready")
    /\ CalledC
    /\ id \in FreshIds(issued)
    /\ issued' = issued \cup {id}
    /\ born' = [x \in issued' |-> IF x = id THEN input.content ELSE born[x]]
    /\ vecs' = VecAdd(vecs, id, Embed(input.content), input.content)
    /\ rows' = SqlInsert(rows, id, input, now)
    /\ Goto(p, Idle)
    /\ UNCHANGED <<now, vdb>>
    /\ UNCHANGED failed

\* past ensureVectorDb the caller's method is search or findDuplicates,
\* which change nothing
ReadyRead(p) ==
    /\ At(p, "ready")
    /\ Goto(p, Idle)
    /\ UNCHANGED <<now, rows, vecs, issued, born, calls, vdb>>
    /\ UNCHANGED failed

NextV ==
    \/ InitConnect
    \/ InitTableNames
    \/ InitOpen
    \/ InitCreate
    \/ InitDeleteSchema
    \/ InitRejects
    \/ \E p \in Procs :
          \/ EnsureBegin(p)
          \/ AwaitInit(p)
          \/ \E input \in CreateInputs, id \in UuidPool : ReadyCreate(p, input, id)
          \/ ReadyRead(p)

\* a store from its construction on, two callers using it
SpecV == InitV /\ [][NextV]_vars

-----------------------------------------------------------------------------
(* Properties *)

EntriesOf(vs, id) == {e \in vs : e.id = id}

DeletedIds(rs) == RowIds(rs) \ LiveIds(rs)

\* C1: after calls that ran one at a time, none failing, every live row has
\* exactly one vector entry with its id, holding the row's content and the
\* embedding of it, and every vector entry belongs to a live row.
C1_StoresAgree ==
    /\ \A id \in LiveIds(rows) :
          /\ Cardinality(EntriesOf(vecs, id)) = 1
          /\ \A e \in EntriesOf(vecs, id) :
                /\ e.text = RowOf(rows, id).content
                /\ e.vector = Embed(RowOf(rows, id).content)
    /\ \A e \in vecs : e.id \in LiveIds(rows)

\* a row created and given other content, alive beside a second one
C1_Witness ==
    /\ \E id \in LiveIds(rows) :
          /\ RowOf(rows, id).content = "owns a car"
          /\ born[id] # "owns a car"
    /\ Cardinality(LiveIds(rows)) = 2

\* C2: after a create whose metadata insert failed, no vector entry is left
\* without a metadata row.
C2_NoOrphanAfterFailedCreate ==
    [][\A input \in CreateInputs, id \in UuidPool :
          CreateInsertFailsOp(input, id) => VecIds(vecs') \subseteq RowIds(rows')]_vars

\* the ids of the memories a list of results holds
ResultIds(results) == {results[i].memory.id : i \in 1..Len(results)}

\* no search and no findDuplicates returns a soft-deleted memory
ReadsSkipDeleted ==
    /\ \A opts \in SearchInputs : \A results \in Search(rows, vecs, opts, now) :
          ResultIds(results) \cap DeletedIds(rows) = {}
    /\ \A content \in Contents, threshold \in Thresholds :
          \A results \in FindDuplicates(rows, vecs, content, threshold) :
             ResultIds(results) \cap DeletedIds(rows) = {}

\* delete(id, reason) of a live memory marks its row and removes its entry
DeleteMarks ==
    \A id \in CallIds, reason \in Reasons :
       LET fullId == ResolveFullId(rows, id)
       IN  (DeleteOp(id, reason) /\ fullId \in LiveIds(rows)) =>
             /\ RowOf(rows', fullId).deleted_at = now
             /\ RowOf(rows', fullId).deleted_at # NullNum
             /\ RowOf(rows', fullId).delete_reason = ReasonOrNull(reason)
             /\ EntriesOf(vecs', fullId) = {}

\* a memory whose delete has returned stays soft-deleted, with no entry
StaysForgotten ==
    \A id \in DeletedIds(rows) :
       /\ id \in DeletedIds(rows')
       /\ EntriesOf(vecs, id) = {} => EntriesOf(vecs', id) = {}

\* C3: delete(id, reason) of a live memory leaves its row with deletedAt set
\* and deleteReason = reason (or null) and removes its vector entry; from
\* then on the row stays soft-deleted and without an entry, and no search
\* and no findDuplicates returns a soft-deleted memory.
C3_DeletedNeverSurfaces ==
    /\ []ReadsSkipDeleted
    /\ [][DeleteMarks /\ StaysForgotten]_vars

\* a memory deleted with a reason, its entry gone, while a search by query
\* still finds another memory
C3_Witness ==
    /\ \E id \in DeletedIds(rows) :
          /\ RowOf(rows, id).delete_reason = "outdated"
          /\ EntriesOf(vecs, id) = {}
    /\ \E results \in Search(rows, vecs, [query |-> "likes tea"], now) :
          results # <<>>

\* C4: a delete of an id whose row is already soft-deleted leaves that
\* row's deletedAt and deleteReason as they were.
C4_DeleteIdempotent ==
    [][\A id \in CallIds, reason \in Reasons :
          DeleteOp(id, reason) =>
             \A i \in 1..Len(rows) :
                rows[i].deleted_at # NullNum =>
                   /\ rows'[i].deleted_at = rows[i].deleted_at
                   /\ rows'[i].delete_reason = rows[i].delete_reason]_vars

\* an id that get resolves to no live row
NoLiveRow(rs, id) ==
    \/ Get(rs, id) = NullMemory
    \/ Get(rs, id).deletedAt # UndefNum

\* C5: update on an id that resolves to no live row returns not-found (the
\* null of get) and changes neither table.
C5_UpdateNotFound ==
    [][\A id \in CallIds, updates \in UpdateInputs :
          (UpdateOp(id, updates) /\ NoLiveRow(rows, id)) =>
             /\ Get(rows', id) = NullMemory
             /\ rows' = rows
             /\ vecs' = vecs]_vars

\* the ids the vector lookup answered
RankedIds(ranked) == {ranked[i].id : i \in 1..Len(ranked)}

\* a search in flight between its vector lookup and its SQL query returns,
\* whenever it goes on, only memories whose row is there and not soft-deleted
InFlightSearchSkipsDeleted ==
    \A p \in Procs :
       At(p, "search_sql") =>
          \A results \in SearchReturns(p) :
             \A i \in 1..Len(results) :
                /\ results[i].memory.id \in LiveIds(rows)
                /\ results[i].memory.deletedAt = UndefNum
                /\ results[i].memory = RowToMemory(RowOf(rows, results[i].memory.id))

\* a search without a query awaits nothing between its start and its SQL
\* query, and returns only such memories too
PlainSearchSkipsDeleted ==
    \A opts \in {o \in SearchInputs : ~HasQuery(o)} :
       \A results \in Search(rows, vecs, opts, now) :
          ResultIds(results) \subseteq LiveIds(rows)

\* C6: search returns no memory that is soft-deleted or has no metadata row
\* when its result is built, whatever calls ran between its vector lookup
\* and its SQL query, a delete of a memory the lookup answered among them.
C6_SearchDropsDeleted == InFlightSearchSkipsDeleted /\ PlainSearchSkipsDeleted

\* caller "p" is in a search whose vector lookup answered a memory that
\* caller "q" soft-deleted since and is about to take out of the index
C6_Witness ==
    /\ At("p", "search_sql")
    /\ At("q", "delete_vec")
    /\ procs["q"].fullId \in RankedIds(procs["p"].ranked)
    /\ procs["q"].fullId \in DeletedIds(rows)
    /\ \A results \in SearchReturns("p") :
          procs["q"].fullId \notin ResultIds(results)

\* what the input gives for a field, or the default
GivenNum(input, f, d) == IF f \in DOMAIN input THEN input[f] ELSE d
GivenText(input, f) == IF f \in DOMAIN input THEN input[f] ELSE Undef

\* C7: create(X) returns get of the new id: a memory with X's content,
\* category, decayDays, tags and provenance, confidence 0.8, importance 0.5,
\* tags [] and decayDays null where X omits them, the three timestamps
\* equal to the time of the call, deletedAt unset, and an id never issued
\* before.
C7_CreateRoundTrip ==
    [][\A input \in CreateInputs, id \in UuidPool :
          CreateOp(input, id) =>
             LET m == Get(rows', id)
             IN  /\ m # NullMemory
                 /\ m.id = id
                 /\ id \notin issued
                 /\ m.content = input.content
                 /\ m.category = input.category
                 /\ m.confidence = GivenNum(input, "confidence", 80)
                 /\ m.importance = GivenNum(input, "importance", 50)
                 /\ m.decayDays = GivenNum(input, "decayDays", NullNum)
                 /\ m.tags = IF "tags" \in DOMAIN input THEN input.tags ELSE <<>>
                 /\ m.sourceChannel = GivenText(input, "sourceChannel")
                 /\ m.sourceMessageId = GivenText(input, "sourceMessageId")
                 /\ m.createdAt = now
                 /\ m.updatedAt = now
                 /\ m.lastAccessedAt = now
                 /\ m.deletedAt = UndefNum]_vars

\* a memory created a day late with two tags, beside one created with
\* every optional field omitted
C7_Witness ==
    /\ \E id \in RowIds(rows) :
          /\ Get(rows, id).tags = <<TagMeet, TagWork>>
          /\ Get(rows, id).createdAt = DayMs + 1
          /\ Get(rows, id).decayDays = 1
    /\ \E id \in RowIds(rows) :
          /\ Get(rows, id).tags = <<>>
          /\ Get(rows, id).confidence = 80
          /\ Get(rows, id).sourceChannel = Undef

\* the positions of the rows whose id starts with p, and the first of some
Sharing(rs, p) == {i \in 1..Len(rs) : ShortOf(rs[i].id) = p}
LiveSharing(rs, p) == {i \in Sharing(rs, p) : rs[i].deleted_at = NullNum}
First(positions) == CHOOSE i \in positions : \A j \in positions : i <= j

\* get(p) returns the earliest-inserted row whose id starts with p, live or
\* not; delete(p) resolves p to the earliest-inserted live such row, and to
\* no row when none is live
ShortIdPicks ==
    \A id \in RowIds(rows) :
       LET p == ShortOf(id)
       IN  /\ Get(rows, p) = RowToMemory(rows[First(Sharing(rows, p))])
           /\ ResolveFullId(rows, p) =
                 IF LiveSharing(rows, p) = {} THEN p
                 ELSE rows[First(LiveSharing(rows, p))].id
           /\ Cardinality(Sharing(rows, p)) = 1 =>
                 /\ Get(rows, p) = Get(rows, id)
                 /\ id \in LiveIds(rows) => ResolveFullId(rows, p) = id

\* delete(p) of the one stored id with prefix p, live, is delete(id)
ShortDeleteIsFullDelete ==
    \A id \in LiveIds(rows), reason \in Reasons :
       (Cardinality(Sharing(rows, ShortOf(id))) = 1
          /\ DeleteOp(ShortOf(id), reason)) => DeleteOp(id, reason)

Expired(row, t) ==
    /\ row.decay_days # NullNum
    /\ row.created_at + row.decay_days * 86400000 <= t

\* excludeDecayed is true or omitted
ExcludesDecayed(opts) ==
    "excludeDecayed" \notin DOMAIN opts \/ opts.excludeDecayed = TRUE

\* two tags alike but for the case of their letters
SameTag(a, b) ==
    /\ Len(a) = Len(b)
    /\ \A j \in 1..Len(a) : Lower(a[j]) = Lower(b[j])

\* the tag list holds the tag, the case of letters aside
HasTag(tags, tag) == \E k \in 1..Len(tags) : SameTag(tags[k], tag)

\* the row is live and has the category, the confidence, the importance
\* and the tags the options ask for
PassesOthers(row, opts) ==
    /\ row.deleted_at = NullNum
    /\ "category" \in DOMAIN opts => row.category = opts.category
    /\ "minConfidence" \in DOMAIN opts => row.confidence >= opts.minConfidence
    /\ "minImportance" \in DOMAIN opts => row.importance >= opts.minImportance
    /\ "tags" \in DOMAIN opts =>
          \A k \in 1..Len(opts.tags) : HasTag(JsonParse(row.tags), opts.tags[k])

\* the row is one search may return as far as everything but decay and the
\* limit goes: it passes the other filters and, when the vector lookup
\* answered anything, is among its answers
Eligible(row, ranked, opts) ==
    /\ PassesOthers(row, opts)
    /\ ranked # <<>> => row.id \in RankedIds(ranked)

\* an expired memory is in no result of a search that excludes the decayed,
\* and get returns it
ExpiredHidden ==
    \A row \in Range(rows) :
       Expired(row, now) =>
          /\ \A opts \in SearchInputs :
                ExcludesDecayed(opts) =>
                   \A results \in Search(rows, vecs, opts, now) :
                      row.id \notin ResultIds(results)
          /\ Get(rows, row.id) = RowToMemory(row)

\* no more than limit rows are eligible
WithinLimit(ranked, opts) ==
    Cardinality({r \in Range(rows) : Eligible(r, ranked, opts)}) <= LimitOf(opts)

\* with excludeDecayed=false an expired memory is in the result when it is
\* eligible and (if `capped`) no more than limit rows are
ExpiredShown(capped) ==
    \A row \in Range(rows), opts \in SearchInputs :
       (Expired(row, now) /\ ~ExcludesDecayed(opts)) =>
          \A ranked \in VectorLookup(vecs, opts) :
             (Eligible(row, ranked, opts) /\ (capped => WithinLimit(ranked, opts)))
             => \A results \in SearchTail(rows, ranked, opts, now) :
                   row.id \in ResultIds(results)

\* a memory with decayDays null is not excluded for decay: whatever
\* excludeDecayed is, it is in the result when it is eligible and no more
\* than limit rows are
PermanentKept ==
    \A row \in Range(rows), opts \in SearchInputs :
       row.decay_days = NullNum =>
          \A ranked \in VectorLookup(vecs, opts) :
             (Eligible(row, ranked, opts) /\ WithinLimit(ranked, opts))
             => \A results \in SearchTail(rows, ranked, opts, now) :
                   row.id \in ResultIds(results)

\* C9: a memory with createdAt + decayDays*86400000 <= now is
\* never returned by search when excludeDecayed is true or omitted and is
\* still returned by get; with excludeDecayed=false it is returned when it
\* passes the other filters, is among the vector candidates of a query, and
\* no more than limit rows do so; a memory with decayDays null is returned
\* under the same conditions whatever excludeDecayed is.
C9_DecayVisibility == ExpiredHidden /\ ExpiredShown(TRUE) /\ PermanentKept

\* a memory exactly at its decay age, hidden from the default search and
\* returned with excludeDecayed=false
C9_Witness ==
    \E row \in Range(rows) :
       /\ row.deleted_at = NullNum
       /\ row.decay_days # NullNum
       /\ row.created_at + row.decay_days * 86400000 = now
       /\ \A results \in Search(rows, vecs, NoFields, now) :
             row.id \notin ResultIds(results)
       /\ \E results \in Search(rows, vecs, [excludeDecayed |-> FALSE], now) :
             row.id \in ResultIds(results)

\* C9 as the specification words it: with excludeDecayed=false the expired memory is returned
\* whenever it passes the other filters.
C9_Original == ExpiredHidden /\ ExpiredShown(FALSE) /\ PermanentKept

\* the distance of the entries nearest to the text, and their ids
MinDistance(vs, text) ==
    CHOOSE d \in {Distance(e.vector, Embed(text)) : e \in vs} :
       \A e \in vs : d <= Distance(e.vector, Embed(text))
NearestIds(vs, text) ==
    {e.id : e \in {x \in vs :
                     Distance(x.vector, Embed(text)) = MinDistance(vs, text)}}

\* findDuplicates returns at most one result: none when the index is empty,
\* when the score of the nearest entry is below the threshold, or when the
\* nearest entry it was given has no row or a soft-deleted one; otherwise
\* that neighbour, with its score
DuplicatesAnswer ==
    \A content \in Contents, threshold \in Thresholds :
       \A results \in FindDuplicates(rows, vecs, content, threshold) :
          /\ Len(results) <= 1
          /\ vecs = {} => results = <<>>
          /\ vecs # {} =>
                LET score == ScoreOf(MinDistance(vecs, content))
                    near == NearestIds(vecs, content)
                IN  /\ score.num * 100 < threshold * score.den => results = <<>>
                    /\ results # <<>> =>
                          /\ results[1].memory.id \in near \cap LiveIds(rows)
                          /\ results[1].memory =
                                RowToMemory(RowOf(rows, results[1].memory.id))
                          /\ results[1].score = score
                          /\ score.num * 100 >= threshold * score.den
                    /\ (results = <<>> /\ score.num * 100 >= threshold * score.den)
                          => \E id \in near : id \notin LiveIds(rows)

\* the memories that still hold the content they were created with
Unchanged(rs) == {id \in LiveIds(rs) : RowOf(rs, id).content = born[id]}

\* after create(c), the memory neither deleted nor given other content,
\* findDuplicates(c, 0.95) has a neighbour at distance 0 and returns one
\* match of score 1 unless that neighbour has no live row
DuplicateOfCreated ==
    \A id \in Unchanged(rows) :
       \A results \in FindDuplicates(rows, vecs, born[id], DefaultThreshold) :
          /\ EntriesOf(vecs, id) # {} => MinDistance(vecs, born[id]) = 0
          /\ NearestIds(vecs, born[id]) \subseteq LiveIds(rows) =>
                /\ Len(results) = 1
                /\ results[1].score = FullScore

\* C10: findDuplicates returns at most one result, as described;
\* after create(c), while that memory is neither deleted nor given other
\* content, findDuplicates(c, 0.95) returns exactly one match provided the
\* nearest entry the index answers with belongs to a live row.
C10_FindDuplicates == DuplicatesAnswer /\ DuplicateOfCreated

\* a near-duplicate: returned at threshold 0.95 with a score below 1, not
\* returned at 0.97
C10_Witness ==
    \E content \in Contents :
       /\ \E results \in FindDuplicates(rows, vecs, content, DefaultThreshold) :
             /\ results # <<>>
             /\ results[1].score # FullScore
       /\ \A results \in FindDuplicates(rows, vecs, content, 97) :
             results = <<>>

\* C10 as the specification words it: while no memory has been deleted,
\* findDuplicates(c, 0.95) returns exactly one match for the content c of
\* every create (looked at only while every vector entry has its row).
C10_Original ==
    /\ DuplicatesAnswer
    /\ (DeletedIds(rows) = {} /\ VecIds(vecs) \subseteq RowIds(rows)) =>
          \A id \in RowIds(rows) :
             \A results \in FindDuplicates(rows, vecs, born[id], DefaultThreshold) :
                Len(results) = 1

-----------------------------------------------------------------------------
(* The filters of search *)

\* the memory has the category, the confidence and the importance asked for
MeetsNumbers(m, opts) ==
    /\ "category" \in DOMAIN opts => m.category = opts.category
    /\ "minConfidence" \in DOMAIN opts => m.confidence >= opts.minConfidence
    /\ "minImportance" \in DOMAIN opts => m.importance >= opts.minImportance

\* every result of every search meets the filters, the tags matched as
\* `exact` says: letter for letter, or the case of letters aside
ResultsMeetFilters(exact) ==
    \A opts \in SearchInputs : \A results \in Search(rows, vecs, opts, now) :
       \A i \in 1..Len(results) :
          LET m == results[i].memory
          IN  /\ MeetsNumbers(m, opts)
              /\ "tags" \in DOMAIN opts =>
                    \A k \in 1..Len(opts.tags) :
                       IF exact
                       THEN \E t \in 1..Len(m.tags) : m.tags[t] = opts.tags[k]
                       ELSE HasTag(m.tags, opts.tags[k])

\* with no live row passing the filters the result is the empty sequence
NoMatchIsEmpty ==
    \A opts \in SearchInputs :
       (\A row \in Range(rows) : ~PassesOthers(row, opts)) =>
          Search(rows, vecs, opts, now) = {<<>>}

\* C11: every memory search returns has the requested category, confidence
\* >= minConfidence, importance >= minImportance, and for every requested
\* tag a tag of its list equal to it but for the case of letters; when no
\* row passes the filters the result is the empty sequence.
C11_SearchFilters == ResultsMeetFilters(FALSE) /\ NoMatchIsEmpty

\* a search by confidence, importance and the tag "Wk" returns the memory
\* tagged "wk" and leaves out a live memory of lower confidence
C11_Witness ==
    LET opts == [minConfidence |-> 90, minImportance |-> 60, tags |-> <<TagShout>>]
    IN  /\ \E results \in Search(rows, vecs, opts, now) :
              /\ Len(results) = 1
              /\ results[1].memory.tags = <<TagMeet, TagWork>>
        /\ \E row \in Range(rows) :
              row.deleted_at = NullNum /\ row.confidence < 90

\* C11 as the specification words it: every requested tag occurs in the
\* tag list of every memory returned.
C11_Original == ResultsMeetFilters(TRUE) /\ NoMatchIsEmpty

-----------------------------------------------------------------------------
(* list *)

\* the live rows the options ask for
ListMatching(opts) ==
    {r \in Range(rows) :
       /\ r.deleted_at = NullNum
       /\ "category" \in DOMAIN opts => r.category = opts.category}

ItemIds(items) == {items[i].id : i \in 1..Len(items)}

\* total is the number of live matching rows, whatever limit and offset
TotalCounts ==
    \A opts \in ListInputs : \A answer \in List(rows, opts) :
       answer.total = Cardinality(ListMatching(opts))

\* two pages of one walk, fetched by two calls, share no row
PagesDisjoint ==
    \A base \in ListBases, L \in PageSizes :
       \A k, j \in PagesOf(Len(rows)) :
          k < j =>
             \A one \in List(rows, Paged(base, L, k)),
                other \in List(rows, Paged(base, L, j)) :
                ItemIds(one.items) \cap ItemIds(other.items) = {}

\* every page of a walk is full as long as rows are left, so that pages
\* sharing no row leave none out
PagesFull ==
    \A base \in ListBases, L \in PageSizes, k \in PagesOf(Len(rows)) :
       \A answer \in List(rows, Paged(base, L, k)) :
          LET left == Cardinality(ListMatching(base)) - k * L
          IN  /\ Cardinality(ItemIds(answer.items)) = Len(answer.items)
              /\ ItemIds(answer.items) \subseteq
                    {r.id : r \in ListMatching(base)}
              /\ Len(answer.items) = IF left <= 0 THEN 0 ELSE Min(L, left)

\* C12: over the dataset of a state, the pages of list at offsets 0, L,
\* 2L, ... with limit L hold every live row of the category exactly once,
\* rows equal in the sort attribute too, and total is the number of live
\* matching rows in every call.
C12_Pagination == TotalCounts /\ PagesFull /\ PagesDisjoint

\* the value a memory has for the attribute list sorts by
SortKey(m, opts) ==
    LET by == IF "sortBy" \in DOMAIN opts THEN opts.sortBy ELSE "createdAt"
    IN  CASE by = "createdAt" -> m.createdAt
          [] by = "updatedAt" -> m.updatedAt
          [] by = "importance" -> m.importance

\* C13: list returns only memories of live rows, of the category asked
\* for, at most limit of them (20 when omitted), in the order of the
\* attribute asked for (createdAt when omitted), descending unless
\* sortOrder is 'asc'.
C13_ListOrder ==
    \A opts \in ListInputs : \A answer \in List(rows, opts) :
       LET items == answer.items
       IN  /\ Len(items) <= (IF "limit" \in DOMAIN opts THEN opts.limit ELSE 20)
           /\ \A i \in 1..Len(items) :
                 /\ items[i].id \in LiveIds(rows)
                 /\ items[i] = RowToMemory(RowOf(rows, items[i].id))
                 /\ items[i].deletedAt = UndefNum
                 /\ "category" \in DOMAIN opts => items[i].category = opts.category
           /\ \A i, j \in 1..Len(items) :
                 i < j =>
                    IF "sortOrder" \in DOMAIN opts /\ opts.sortOrder = "asc"
                    THEN SortKey(items[i], opts) <= SortKey(items[j], opts)
                    ELSE SortKey(items[i], opts) >= SortKey(items[j], opts)

\* two live rows created a day apart: list() returns the later before the
\* earlier, and list({sortBy: 'importance'}) the more important first
C13_Witness ==
    /\ \E answer \in List(rows, [sortBy |-> "importance"]) :
          /\ Len(answer.items) = 2
          /\ answer.items[1].importance > answer.items[2].importance
          /\ answer.items[1].id = rows[1].id
    /\ \E answer \in List(rows, NoFields) :
          /\ Len(answer.items) = 2
          /\ answer.items[1].createdAt > answer.items[2].createdAt
          /\ answer.items[1].id = rows[Len(rows)].id

-----------------------------------------------------------------------------
(* Opening the vector table once *)

\* initVectorDb is entered at most once and createTable resolves at most
\* once
OpensOnce == vdb.started <= 1 /\ vdb.created <= 1

\* a caller that begins while the initialization is in flight, or after it
\* has failed, starts none and awaits the one there is
SharesInit ==
    \A p \in Procs :
       (EnsureBegin(p) /\ vdb.started > 0) =>
          /\ vdb' = vdb
          /\ ~vdb.vectorTable => procs'[p].pc = "await_init"

\* C14: initVectorDb runs at most once in the life of a store and the table
\* is created at most once; callers that begin before the first has done
\* initializing await the one initialization in flight.
C14_InitOnce == []OpensOnce /\ [][SharesInit]_vars

\* both callers await the one initialization, which is creating the table
C14_Witness ==
    /\ At("p", "await_init")
    /\ At("q", "await_init")
    /\ vdb.step = "createTable"
    /\ vdb.started = 1

-----------------------------------------------------------------------------
(* get *)

\* get(id) of a stored id is the memory of the row with that id, live,
\* soft-deleted or expired alike
GetReturnsRow ==
    \A id \in RowIds(rows) :
       LET m == Get(rows, id)
           row == RowOf(rows, id)
       IN  /\ m # NullMemory
           /\ m.id = id
           /\ m.content = row.content
           /\ m.createdAt = row.created_at
           /\ m.decayDays = row.decay_days
           /\ m.deletedAt = IF row.deleted_at = NullNum THEN UndefNum
                                                        ELSE row.deleted_at
           /\ m.deleteReason = IF row.delete_reason = Null THEN Undef
                                                           ELSE row.delete_reason
           /\ m = RowToMemory(row)

\* get(id) is null just when no row has the id, or, the id being 8
\* characters long, no stored id begins with it
GetNullIffAbsent ==
    \A id \in CallIds :
       Get(rows, id) = NullMemory <=>
          IF Len(id) = 8 THEN \A x \in RowIds(rows) : ShortOf(x) # id
                         ELSE id \notin RowIds(rows)

\* C15: get returns the row stored under an id with no filter for soft
\* deletion or decay, deletedAt and deleteReason as the delete left them,
\* and returns null only when no row has the id.
C15_GetUnfiltered == GetReturnsRow /\ GetNullIffAbsent

\* get returns a memory that is past its decay age and soft-deleted with a
\* reason
C15_Witness ==
    \E id \in DeletedIds(rows) :
       /\ Expired(RowOf(rows, id), now)
       /\ Get(rows, id).deletedAt = now
       /\ Get(rows, id).deleteReason = "outdated"
       /\ Get(rows, UnknownId) = NullMemory

-----------------------------------------------------------------------------
(* updatedAt *)

\* update of a stored id sets the row's updated_at to the time of the call
UpdateStamps ==
    \A id \in CallIds, updates \in UpdateInputs :
       (UpdateOp(id, updates) /\ id \in RowIds(rows)) =>
          RowOf(rows', id).updated_at = now

\* delete of a live memory sets the row's updated_at to the time of the call
DeleteStamps ==
    \A id \in CallIds, reason \in Reasons :
       (DeleteOp(id, reason) /\ ResolveFullId(rows, id) \in LiveIds(rows)) =>
          RowOf(rows', ResolveFullId(rows, id)).updated_at = now

\* no step lowers a row's updated_at
StampsGrow ==
    \A i \in 1..Len(rows) : rows'[i].updated_at >= rows[i].updated_at

\* C16: update and delete both set the updatedAt of the memory they change
\* to the current time; updatedAt never decreases and is never less than
\* createdAt.
C16_UpdatedAtRefreshed ==
    /\ [](\A i \in 1..Len(rows) : rows[i].updated_at >= rows[i].created_at)
    /\ [][UpdateStamps /\ DeleteStamps /\ StampsGrow]_vars

-----------------------------------------------------------------------------
(* touchMany *)

\* touchMany(ids) sets last_accessed_at of the rows whose id is in ids to
\* the time of the call and leaves every other column, every other row and
\* the vector table as they were
TouchFrame ==
    \A ids \in TouchLists :
       TouchManyOp(ids) =>
          /\ Len(rows') = Len(rows)
          /\ \A i \in 1..Len(rows) :
                /\ \A f \in DOMAIN rows[i] \ {"last_accessed_at"} :
                      rows'[i][f] = rows[i][f]
                /\ rows'[i].last_accessed_at =
                      IF rows[i].id \in ids THEN now ELSE rows[i].last_accessed_at
          /\ vecs' = vecs
          /\ (ids = {} \/ ids \cap RowIds(rows) = {}) => rows' = rows

\* a step that changes last_accessed_at of a row is a touchMany
OnlyTouchTouches ==
    (\E i \in 1..Len(rows) : rows'[i].last_accessed_at # rows[i].last_accessed_at)
       => \E ids \in TouchLists : TouchManyOp(ids)

\* C17: touchMany(ids) sets lastAccessedAt to now for exactly the existing
\* rows whose id is in ids, changes no other field, no other row and
\* nothing in the vector table, and does nothing for an empty list or ids
\* not stored; nothing but touchMany changes a row's lastAccessedAt.
C17_TouchMany == [][TouchFrame /\ OnlyTouchTouches]_vars

\* a soft-deleted row touched a day after its delete
C17_Witness ==
    \E id \in DeletedIds(rows) :
       /\ RowOf(rows, id).last_accessed_at = now
       /\ RowOf(rows, id).updated_at < now
       /\ RowOf(rows, id).deleted_at < now

-----------------------------------------------------------------------------
(* count *)

\* count() is the number of memories not soft-deleted
CountIsLive == Count(rows) = Cardinality(LiveIds(rows))

\* what each call does to count()
CountSteps ==
    /\ \A input \in CreateInputs, id \in UuidPool :
          CreateOp(input, id) => Count(rows') = Count(rows) + 1
    /\ \A id \in CallIds, reason \in Reasons :
          DeleteOp(id, reason) =>
             Count(rows') = IF ResolveFullId(rows, id) \in LiveIds(rows)
                            THEN Count(rows) - 1 ELSE Count(rows)
    /\ \A id \in CallIds, updates \in UpdateInputs :
          UpdateOp(id, updates) => Count(rows') = Count(rows)
    /\ \A ids \in TouchLists :
          TouchManyOp(ids) => Count(rows') = Count(rows)

\* C18: count() is always the number of rows with deletedAt unset; a
\* create that succeeds raises it by 1, a delete of a live memory lowers it
\* by 1, and update, touchMany and a delete of a soft-deleted or unknown
\* id leave it as it is.
C18_CountLive == []CountIsLive /\ [][CountSteps]_vars

\* two memories created and one of them deleted: count() is 1
C18_Witness ==
    /\ Len(rows) = 2
    /\ Cardinality(DeletedIds(rows)) = 1
    /\ Count(rows) = 1

-----------------------------------------------------------------------------
(* The embedding provider failing *)

\* the call has ended with the provider's error after one call of embed,
\* and both tables are as they were
FailedClean(op) ==
    /\ failed' = [op |-> op, error |-> "provider", embedCalls |-> 1]
    /\ rows' = rows
    /\ vecs' = vecs

-----------------------------------------------------------------------------
(* The two stores after calls in flight together *)

\* no call is in flight
Quiescent == \A p \in Procs : IsIdle(p)

\* C20: whenever no create, update or delete is in flight, whatever the
\* interleaving of the calls that have completed, every live row has
\* exactly one vector entry, holding the row's content, and no
\* soft-deleted row has a vector entry.
C20_AgreeWhenQuiescent ==
    Quiescent =>
       /\ \A id \in LiveIds(rows) :
             /\ Cardinality(EntriesOf(vecs, id)) = 1
             /\ \A e \in EntriesOf(vecs, id) : e.text = RowOf(rows, id).content
       /\ \A id \in DeletedIds(rows) : EntriesOf(vecs, id) = {}

-----------------------------------------------------------------------------
(* update(content) and delete of one id in flight together *)

\* the live ids on which the two stores agree
AgreedIds ==
    {id \in LiveIds(rows) :
       /\ Cardinality(EntriesOf(vecs, id)) = 1
       /\ \A e \in EntriesOf(vecs, id) : e.text = RowOf(rows, id).content}

ContentUpdates == {u \in UpdateInputs : "content" \in DOMAIN u}

\* the two stores of out disagree on id: the row is live and its entry is
\* missing or holds another text, or the row is soft-deleted and has an entry
Disagree(out, id) ==
    IF RowOf(out.rows, id).deleted_at = NullNum
    THEN \/ Cardinality(EntriesOf(out.vecs, id)) # 1
         \/ \E e \in EntriesOf(out.vecs, id) :
               e.text # RowOf(out.rows, id).content
    ELSE EntriesOf(out.vecs, id) # {}

\* whatever the order of the steps, both calls leave the row soft-deleted,
\* holding the new content, and no vector entry with the id
RaceEndsDeleted ==
    \A id \in AgreedIds, u \in ContentUpdates, reason \in Reasons :
       \A out \in RaceOutcomes(rows, vecs, id, u, reason, now) :
          /\ RowOf(out.rows, id).deleted_at = now
          /\ RowOf(out.rows, id).content = u.content
          /\ EntriesOf(out.vecs, id) = {}
          /\ ~Disagree(out, id)

\* a soft-deleted row has a vector entry only while the delete that marked
\* it is still to remove the entry
EntryOnlyWhileDeleting ==
    \A id \in DeletedIds(rows) :
       EntriesOf(vecs, id) # {} =>
          \E p \in Procs : procs[p].pc = "delete_vec" /\ procs[p].fullId = id

\* C21 (as the code has it): no interleaving of an update(content) and a
\* delete of one live id, both completing, leaves the stores in
\* disagreement on it: the row ends soft-deleted with the new content and
\* without a vector entry; a soft-deleted row has an entry only while its
\* delete is in flight.
C21_UpdateDeleteRace == RaceEndsDeleted /\ EntryOnlyWhileDeleting

\* an update(content) and a delete of one id both at their last step: the
\* entry rewritten, the row soft-deleted, neither call completed
C21_Witness ==
    \E p, q \in Procs :
       /\ procs[p].pc = "update_sql"
       /\ procs[q].pc = "delete_vec"
       /\ procs[p].id = procs[q].fullId
       /\ procs[p].id \in DeletedIds(rows)
       /\ \E e \in EntriesOf(vecs, procs[p].id) :
             e.text = procs[p].updates.content

\* C21 as stated: for a live id there is an interleaving of update(content)
\* and delete after which, both completed, the two stores disagree on it.
C21_Original ==
    \A id \in AgreedIds, u \in ContentUpdates, reason \in Reasons :
       \E out \in RaceOutcomes(rows, vecs, id, u, reason, now) :
          Disagree(out, id)

-----------------------------------------------------------------------------
(* What update changes *)

\* the columns update never writes
FrameColumns ==
    {"id", "category", "created_at", "last_accessed_at", "source_channel",
     "source_message_id", "supersedes", "deleted_at", "delete_reason"}

\* the column of a field of UpdateMemoryInput
ColumnOf(field) == IF field = "decayDays" THEN "decay_days" ELSE field

\* the value the column of a supplied field is given
Supplied(updates, field) ==
    IF field = "tags" THEN JsonStringify(updates.tags) ELSE updates[field]

UpdateFields == {"content", "confidence", "importance", "decayDays", "tags"}

\* the row of id after update(id, updates) at time t, told from the row
\* before: supplied fields take their values, updated_at is t, the rest stays
RowUpdated(old, new, updates, t) ==
    /\ \A f \in UpdateFields :
          new[ColumnOf(f)] = IF f \in DOMAIN updates
                             THEN Supplied(updates, f) ELSE old[ColumnOf(f)]
    /\ new.updated_at = t
    /\ \A c \in FrameColumns : new[c] = old[c]

\* the vector table after update(id, updates): with content, the one entry
\* of id holds the content and its embedding and every other entry is as
\* before; without, nothing changes
EntryRewritten(id, updates) ==
    IF "content" \in DOMAIN updates
    THEN /\ EntriesOf(vecs', id) =
               {[id |-> id, vector |-> Embed(updates.content),
                 text |-> updates.content]}
         /\ Cardinality(EntriesOf(vecs, id)) = 1
         /\ vecs' \ EntriesOf(vecs', id) = vecs \ EntriesOf(vecs, id)
    ELSE vecs' = vecs

\* C22: update(id, fields) of a live memory gives the supplied fields among
\* content, confidence, importance, decayDays and tags their values and
\* sets updatedAt; every other column of the row and every other row stay
\* as they were; the vector entry of id is rewritten in place when content
\* is supplied and the vector table is untouched when it is not; with no
\* field supplied only updatedAt changes.
C22_UpdateFrame ==
    [][\A id \in UuidPool, updates \in UpdateInputs :
          (UpdateOp(id, updates) /\ id \in LiveIds(rows)) =>
             /\ Len(rows') = Len(rows)
             /\ \A i \in 1..Len(rows) :
                   IF rows[i].id = id
                   THEN RowUpdated(rows[i], rows'[i], updates, now)
                   ELSE rows'[i] = rows[i]
             /\ EntryRewritten(id, updates)
             /\ updates = NoFields =>
                   rows' = [i \in 1..Len(rows) |->
                              IF rows[i].id = id
                              THEN [rows[i] EXCEPT !.updated_at = now]
                              ELSE rows[i]]
      ]_vars

\* a live memory whose confidence, importance, decay and tags were updated
\* a day or more after it was created, its content and entry as created
C22_Witness ==
    \E id \in LiveIds(rows) :
       /\ RowOf(rows, id).updated_at > RowOf(rows, id).created_at
       /\ RowOf(rows, id).last_accessed_at = RowOf(rows, id).created_at
       /\ RowOf(rows, id).confidence = 60
       /\ RowOf(rows, id).importance = 20
       /\ RowOf(rows, id).decay_days = NullNum
       /\ RowOf(rows, id).tags = JsonStringify(<<TagWork>>)
       /\ RowOf(rows, id).content = born[id]
       /\ \E e \in EntriesOf(vecs, id) : e.text = born[id]

-----------------------------------------------------------------------------
(* Order, scores and length of search results *)

\* the place of id in the list the vector index answered
PlaceIn(ranked, id) == CHOOSE i \in 1..Len(ranked) : ranked[i].id = id

\* score a is at least score b
ScoreAtLeast(a, b) == a.num * b.den >= b.num * a.den

\* the results of a search with a query follow the index's list, closest
\* first, and each carries 1 / (1 + distance) of the entry with its id
RankedAndScored(res, ranked, opts) ==
    /\ \A i \in 1..Len(res) :
          /\ \E k \in 1..Len(ranked) : ranked[k].id = res[i].memory.id
          /\ \E e \in EntriesOf(vecs, res[i].memory.id) :
                /\ res[i].score.num = Scale
                /\ res[i].score.den =
                      Scale + Distance(e.vector, Embed(opts.query))
    /\ \A i, j \in 1..Len(res) :
          i < j => /\ PlaceIn(ranked, res[i].memory.id)
                        < PlaceIn(ranked, res[j].memory.id)
                   /\ ScoreAtLeast(res[i].score, res[j].score)

\* C23: the results of a search with a query are in the order of the
\* vector index's answer, closest first, their scores never increasing,
\* each score 1/(1+distance) of the result's own vector entry; without a
\* query every score is 1.0; either way there are at most limit results,
\* limit being 10 when not given.
C23_SearchOrder ==
    \A opts \in SearchInputs :
       \A ranked \in VectorLookup(vecs, opts) :
          \A res \in SearchTail(rows, ranked, opts, now) :
             /\ Len(res) <= IF "limit" \in DOMAIN opts
                             THEN opts.limit ELSE DefaultSearchLimit
             /\ IF HasQuery(opts)
                THEN RankedAndScored(res, ranked, opts)
                ELSE \A i \in 1..Len(res) :
                        res[i].score = [num |-> Scale, den |-> Scale]

\* a search with a query answering two memories, the nearer first with the
\* strictly higher score, and one cut to its limit of 1; a search without
\* a query answering both
C23_Witness ==
    /\ \E opts \in SearchInputs : \E res \in Search(rows, vecs, opts, now) :
          /\ HasQuery(opts)
          /\ Len(res) = 2
          /\ ~ScoreAtLeast(res[2].score, res[1].score)
    /\ \E opts \in SearchInputs : \E res \in Search(rows, vecs, opts, now) :
          /\ HasQuery(opts)
          /\ "limit" \in DOMAIN opts
          /\ Len(res) = opts.limit
          /\ Cardinality(LiveIds(rows)) > opts.limit
    /\ \E res \in Search(rows, vecs, NoFields, now) : Len(res) = 2

-----------------------------------------------------------------------------
(* Which candidates a search with a query returns *)

\* the candidates of a search: the rows the vector index answered that are
\* live and pass the filters of opts at time t
Candidates(rs, ranked, opts, t) ==
    {r \in Range(rs) :
       SearchWhere(r, [i \in 1..Len(ranked) |-> ranked[i].id], opts, t)}

\* the distance the index gave for id
DistanceIn(ranked, id) == ranked[PlaceIn(ranked, id)].distance

\* C24: in a search with a query, no candidate left out of the result is
\* nearer to the query than one that is returned.
C24_BestRanked ==
    \A opts \in SearchInputs :
       HasQuery(opts) =>
          \A ranked \in VectorLookup(vecs, opts) :
             \A res \in SearchTail(rows, ranked, opts, now) :
                \A r \in Candidates(rows, ranked, opts, now) :
                   (\A i \in 1..Len(res) : res[i].memory.id # r.id) =>
                      \A i \in 1..Len(res) :
                         DistanceIn(ranked, r.id)
                            >= DistanceIn(ranked, res[i].memory.id)

-----------------------------------------------------------------------------
(* Using the vector table while it is being opened *)

\* the ids a vector lookup for the query of opts may answer
LookupIds(opts) ==
    UNION {{ranked[i].id : i \in 1..Len(ranked)}
             : ranked \in VectorLookup(vecs, opts)}

\* C25: a caller is past ensureVectorDb, about to read or write the vector
\* table, only when the initialization has completed; the schema row is
\* not in the table then, and no vector lookup of the caller answers it.
C25_NoUseBeforeInit ==
    \A p \in Procs :
       At(p, "ready") =>
          /\ vdb.step = "done"
          /\ vdb.initPromise = "fulfilled"
          /\ SchemaRow \notin vecs
          /\ \A opts \in SearchInputs :
                HasQuery(opts) => SchemaId \notin LookupIds(opts)

-----------------------------------------------------------------------------
(* Soft deletion is for good *)

\* a step keeps every soft-deleted row in its place with deleted_at set,
\* and gives no vector entry to a soft-deleted id that has none
StaysDeleted ==
    /\ Len(rows') >= Len(rows)
    /\ \A i \in 1..Len(rows) :
          rows[i].deleted_at # NullNum =>
             /\ rows'[i].id = rows[i].id
             /\ rows'[i].deleted_at # NullNum
             /\ EntriesOf(vecs, rows[i].id) = {}
                   => EntriesOf(vecs', rows[i].id) = {}

\* C26: once deletedAt of a memory is set, no step of a create, update,
\* delete or touchMany, in whatever interleaving, clears it, removes the
\* row, or gives the id a vector entry again once the entry is removed.
C26_SoftDeletePermanent == [][StaysDeleted]_vars

\* an update with content has run its vector step on a soft-deleted id
\* whose entry the delete had removed: the id still has no entry
C26_Witness ==
    \E p \in Procs :
       /\ procs[p].pc = "update_sql"
       /\ procs[p].id \in DeletedIds(rows)
       /\ EntriesOf(vecs, procs[p].id) = {}
       /\ \A q \in Procs \ {p} : IsIdle(q)

-----------------------------------------------------------------------------
(* Reads that do not look at decay *)

\* the live rows of a category, expired ones among them
LiveIn(category) ==
    {r \in Range(rows) : r.deleted_at = NullNum /\ r.category = category}

\* the live rows list(opts) is about
ListedBy(opts) ==
    {r \in Range(rows) :
       /\ r.deleted_at = NullNum
       /\ "category" \in DOMAIN opts => r.category = opts.category}

\* count(), the total of list and the items of a list that is not cut
\* short include the live memories past their decay age
ExpiredListed ==
    /\ Count(rows) = Cardinality({r \in Range(rows) : r.deleted_at = NullNum})
    /\ \A opts \in ListInputs :
          \A answer \in List(rows, opts) :
             /\ answer.total = Cardinality(ListedBy(opts))
             /\ (OrNum(opts, "offset", 0) = 0
                 /\ OrNum(opts, "limit", DefaultListLimit) >= answer.total)
                   => \A r \in ListedBy(opts) :
                         Expired(r, now) =>
                            RowToMemory(r) \in Range(answer.items)

\* getByCategory returns live memories of the category, the first `limit`
\* (50 when not given) by importance, highest first, and among equals by
\* createdAt, latest first; an expired one is returned like any other
CategoryRead ==
    \A category \in Categories, limit \in CategoryLimits :
       \A answer \in GetByCategory(rows, category, limit, now) :
          LET cap == IF limit = UndefNum THEN DefaultCategoryLimit ELSE limit
              Before(a, b) ==
                 \/ a.importance > b.importance
                 \/ a.importance = b.importance /\ a.createdAt >= b.createdAt
          IN  /\ Len(answer) =
                    Min(cap, Cardinality(LiveIn(category)))
              /\ \A i \in 1..Len(answer) :
                    \E r \in LiveIn(category) : answer[i] = RowToMemory(r)
              /\ \A i, j \in 1..Len(answer) :
                    i < j => answer[i].id # answer[j].id
                             /\ Before(answer[i], answer[j])
              /\ \A r \in LiveIn(category) :
                    RowToMemory(r) \notin Range(answer) =>
                       \A i \in 1..Len(answer) :
                          Before(answer[i], RowToMemory(r))
              /\ \A r \in LiveIn(category) :
                    (Expired(r, now) /\ Cardinality(LiveIn(category)) <= cap)
                       => RowToMemory(r) \in Range(answer)

\* C27: decay is looked at by search alone.  A live memory past its decay
\* age is counted by count() and in the total of list, is among the items
\* of a list not cut short by limit and offset, and is returned by
\* getByCategory, which returns the live memories of one category by
\* importance descending, then createdAt descending, at most limit of them.
C27_DecayOnlyInSearch == ExpiredListed /\ CategoryRead

\* two live memories of one category, the more important of them past its
\* decay age: the default search leaves it out, count and list count it,
\* and getByCategory with limit 1 returns it alone
C27_Witness ==
    \E r \in Range(rows) :
       /\ r.deleted_at = NullNum
       /\ Expired(r, now)
       /\ Cardinality(LiveIn(r.category)) = 2
       /\ \A results \in Search(rows, vecs, NoFields, now) :
             r.id \notin ResultIds(results)
       /\ Count(rows) = 2
       /\ \E answer \in List(rows, [category |-> r.category]) :
             answer.total = 2 /\ RowToMemory(r) \in Range(answer.items)
       /\ GetByCategory(rows, r.category, 1, now) = {<<RowToMemory(r)>>}

====
